---- MODULE Spec2Model ----
(***************************************************************************)
(* A model of the <lazy-img> custom element (src/lazy-img.js): the three   *)
(* shared observer registries, the per-instance throttle, the              *)
(* qualification check, the load transition and the renderer.              *)
(*                                                                         *)
(* Strings are sequences of one-character strings, so that parseInt,       *)
(* trim, split and the view-range grammar are computed as the code         *)
(* computes them.  An absent attribute (getAttribute(...) === null) is the *)
(* value Null, which no string equals.                                     *)
(***************************************************************************)
EXTENDS Integers, Sequences, FiniteSets, TLC

(***************************************************************************)
(* Bounds of the model.                                                    *)
(***************************************************************************)
NumInst == 2
NumParents == 2
MaxEntries == 2
MaxThreshold == 2
MaxSize == 2

Inst == 1..NumInst
Parents == 1..NumParents

(***************************************************************************)
(* Strings.                                                                *)
(***************************************************************************)
Null == <<"<null>">>
Empty == <<>>

\* JavaScript truthiness of an attribute value: null and "" are falsy.
Truthy(v) == v # Null /\ v # Empty

IsSpace(c) == c \in {" ", "\t", "\n"}
IsDigit(c) == c \in {"0", "1", "2", "3", "4", "5", "6", "7", "8", "9"}

DigitVal(c) ==
    CASE c = "0" -> 0 [] c = "1" -> 1 [] c = "2" -> 2 [] c = "3" -> 3
      [] c = "4" -> 4 [] c = "5" -> 5 [] c = "6" -> 6 [] c = "7" -> 7
      [] c = "8" -> 8 [] c = "9" -> 9

DigitChar(d) ==
    CASE d = 0 -> "0" [] d = 1 -> "1" [] d = 2 -> "2" [] d = 3 -> "3"
      [] d = 4 -> "4" [] d = 5 -> "5" [] d = 6 -> "6" [] d = 7 -> "7"
      [] d = 8 -> "8" [] d = 9 -> "9"

RECURSIVE TrimStart(_)
TrimStart(s) ==
    IF s # <<>> /\ IsSpace(Head(s)) THEN TrimStart(Tail(s)) ELSE s

RECURSIVE TrimEnd(_)
TrimEnd(s) ==
    IF s # <<>> /\ IsSpace(s[Len(s)])
    THEN TrimEnd(SubSeq(s, 1, Len(s) - 1))
    ELSE s

\* String.prototype.trim
Trim(s) == TrimEnd(TrimStart(s))

\* The longest prefix of s made of decimal digits.
RECURSIVE DigitPrefix(_)
DigitPrefix(s) ==
    IF s # <<>> /\ IsDigit(Head(s))
    THEN <<Head(s)>> \o DigitPrefix(Tail(s))
    ELSE <<>>

\* The value of a sequence of decimal digits.
RECURSIVE DigitsVal(_)
DigitsVal(ds) ==
    IF ds = <<>> THEN 0
    ELSE 10 * DigitsVal(SubSeq(ds, 1, Len(ds) - 1)) + DigitVal(ds[Len(ds)])

\* Number -> decimal string, for a natural number.
RECURSIVE NatToStr(_)
NatToStr(n) ==
    IF n < 10 THEN <<DigitChar(n)>>
    ELSE NatToStr(n \div 10) \o <<DigitChar(n % 10)>>

\* parseInt(s, 10): leading white space, an optional sign, then digits up to
\* the first non-digit; NaN when there is no digit.
ParseInt(s) ==
    LET t == TrimStart(s)
        neg == t # <<>> /\ Head(t) = "-"
        signed == t # <<>> /\ Head(t) \in {"-", "+"}
        body == IF signed THEN Tail(t) ELSE t
        ds == DigitPrefix(body)
    IN  IF ds = <<>>
        THEN [nan |-> TRUE, val |-> 0]
        ELSE [nan |-> FALSE,
              val |-> IF neg THEN 0 - DigitsVal(ds) ELSE DigitsVal(ds)]

\* s.split(',')
RECURSIVE Split(_)
Split(s) ==
    IF \A k \in 1..Len(s) : s[k] # ","
    THEN <<s>>
    ELSE LET k == CHOOSE j \in 1..Len(s) :
                     s[j] = "," /\ \A m \in 1..(j - 1) : s[m] # ","
         IN  <<SubSeq(s, 1, k - 1)>> \o Split(SubSeq(s, k + 1, Len(s)))

\* value.split(',').map((bp) => bp.trim())
ParseBreakpoints(v) == [k \in 1..Len(Split(v)) |-> Trim(Split(v)[k])]

\* Array.prototype.includes
Includes(arr, x) == \E k \in 1..Len(arr) : arr[k] = x

(***************************************************************************)
(* Decimal numbers.  A number is [neg, n, scale], meaning (-1)^neg * n /   *)
(* 10^scale, kept normalised (no trailing zero in the fraction), so that   *)
(* two numbers are equal iff their records are.                            *)
(***************************************************************************)
RECURSIVE Pow10(_)
Pow10(k) == IF k = 0 THEN 1 ELSE 10 * Pow10(k - 1)

RECURSIVE Normalise(_)
Normalise(x) ==
    IF x.scale > 0 /\ x.n % 10 = 0
    THEN Normalise([neg |-> x.neg, n |-> x.n \div 10, scale |-> x.scale - 1])
    ELSE x

Zero == [neg |-> FALSE, n |-> 0, scale |-> 0]

\* parseFloat of a string matching -?\d+(?:\.\d+)?
ParseFloat(s) ==
    LET neg == s # <<>> /\ Head(s) = "-"
        body == IF neg THEN Tail(s) ELSE s
        ip == DigitPrefix(body)
        rest == SubSeq(body, Len(ip) + 1, Len(body))
        fp == IF rest # <<>> /\ Head(rest) = "." THEN DigitPrefix(Tail(rest)) ELSE <<>>
    IN  Normalise([neg |-> neg, n |-> DigitsVal(ip \o fp), scale |-> Len(fp)])

\* x / 100
DivideBy100(x) == Normalise([neg |-> x.neg, n |-> x.n, scale |-> x.scale + 2])

\* Mutant: 100 is out of range.
InPercentRangeExclusive(x) == (~x.neg \/ x.n = 0) /\ (x.neg \/ x.n < 100 * Pow10(x.scale))

\* percent >= 0 && percent <= 100 (-0 >= 0 holds)
InPercentRange(x) == (~x.neg \/ x.n = 0) /\ (x.neg \/ x.n <= 100 * Pow10(x.scale))

RECURSIVE ZeroPad(_, _)
ZeroPad(ds, len) == IF Len(ds) >= len THEN ds ELSE ZeroPad(<<"0">> \o ds, len)

\* `${x}` for a number: -0 prints as "0".
NumToStr(x) ==
    LET sign == IF x.neg /\ x.n # 0 THEN <<"-">> ELSE <<>>
        ds == ZeroPad(NatToStr(x.n), x.scale + 1)
    IN  IF x.scale = 0
        THEN sign \o ds
        ELSE sign \o SubSeq(ds, 1, Len(ds) - x.scale) \o <<".">>
                  \o SubSeq(ds, Len(ds) - x.scale + 1, Len(ds))

(***************************************************************************)
(* parseViewRange (src/lazy-img.js:72-109).                                *)
(***************************************************************************)
EntryWord == <<"e", "n", "t", "r", "y">>

\* The part of t after /^entry\s+/, or Null when t does not start that way.
AfterEntry(t) ==
    IF Len(t) >= 6 /\ SubSeq(t, 1, 5) = EntryWord /\ IsSpace(t[6])
    THEN TrimStart(SubSeq(t, 6, Len(t)))
    ELSE Null

\* The capture of /^entry\s+(-?\d+(?:\.\d+)?)%$/, or Null.
PercentMatch(t) ==
    LET r == AfterEntry(t)
        neg == r # <<>> /\ Head(r) = "-"
        body == IF neg THEN Tail(r) ELSE r
        ip == DigitPrefix(body)
        rest == SubSeq(body, Len(ip) + 1, Len(body))
        fp == IF rest # <<>> /\ Head(rest) = "." THEN DigitPrefix(Tail(rest)) ELSE <<>>
        tail == IF fp # <<>> THEN SubSeq(rest, Len(fp) + 2, Len(rest)) ELSE rest
    IN  IF r # Null /\ ip # <<>> /\ tail = <<"%">>
        THEN SubSeq(r, 1, Len(r) - 1)
        ELSE Null

\* The capture of /^entry\s+(-\d+)px$/, or Null.
PxMatch(t) ==
    LET r == AfterEntry(t)
        body == IF r # <<>> /\ Head(r) = "-" THEN Tail(r) ELSE <<>>
        ds == DigitPrefix(body)
    IN  IF r # Null /\ ds # <<>> /\ SubSeq(body, Len(ds) + 1, Len(body)) = <<"p", "x">>
        THEN <<"-">> \o ds
        ELSE Null

ZeroPx == <<"0", "p", "x">>
ViewDefaults == [rootMargin |-> ZeroPx, threshold |-> Zero, warning |-> "none"]

parseViewRange(rangeValue) ==
    LET trimmed == Trim(rangeValue)
        pm == PercentMatch(trimmed)
        xm == PxMatch(trimmed)
    IN  IF ~Truthy(rangeValue) THEN ViewDefaults
        ELSE IF pm # Null
        THEN IF InPercentRange(ParseFloat(pm))
             THEN [rootMargin |-> ZeroPx, threshold |-> DivideBy100(ParseFloat(pm)),
                   warning |-> "none"]
             ELSE [ViewDefaults EXCEPT !.warning = "out-of-range-percentage"]
        ELSE IF xm # Null
        THEN [rootMargin |-> <<"0", "p", "x", " ", "0", "p", "x", " ">>
                               \o NatToStr(0 - ParseInt(xm).val)
                               \o <<"p", "x", " ", "0", "p", "x">>,
              threshold |-> Zero, warning |-> "none"]
        ELSE [ViewDefaults EXCEPT !.warning = "invalid-view-range-format"]

\* `${rootMargin}|${threshold}`
getIntersectionObserverKey(rootMargin, threshold) ==
    rootMargin \o <<"|">> \o NumToStr(threshold)

(***************************************************************************)
(* Attributes (src/lazy-img.js:179-202).                                   *)
(***************************************************************************)
IMG_ATTRIBUTES ==
    <<"src", "alt", "srcset", "sizes", "width", "height", "loading",
      "decoding", "fetchpriority", "crossorigin", "referrerpolicy">>
SOURCE_ATTRIBUTES == <<"src", "srcset", "sizes">>
CONFIG_ATTRIBUTES == <<"min-inline-size", "named-breakpoints", "query", "view-range-start">>
observedAttributes == IMG_ATTRIBUTES \o CONFIG_ATTRIBUTES

Range(seq) == {seq[k] : k \in 1..Len(seq)}
AttrNames == Range(observedAttributes)

\* Strings the code compares against.
ViewStr == <<"v", "i", "e", "w">>
ContainerStr == <<"c", "o", "n", "t", "a", "i", "n", "e", "r">>
MediaStr == <<"m", "e", "d", "i", "a">>
Entry0Str == <<"e", "n", "t", "r", "y", " ", "0", "%">>

\* escapeHtml: textContent -> innerHTML escapes &, < and >.
RECURSIVE escapeHtml(_)
escapeHtml(text) ==
    IF text = <<>> THEN <<>>
    ELSE (CASE Head(text) = "&" -> <<"&", "a", "m", "p", ";">>
            [] Head(text) = "<" -> <<"&", "l", "t", ";">>
            [] Head(text) = ">" -> <<"&", "g", "t", ";">>
            [] OTHER -> <<Head(text)>>) \o escapeHtml(Tail(text))

(***************************************************************************)
(* Finite maps (Map, WeakMap) and insertion-ordered sets (Set).            *)
(***************************************************************************)
EmptyMap == [x \in {} |-> 0]
Put(f, k, v) == [x \in (DOMAIN f) \cup {k} |-> IF x = k THEN v ELSE f[x]]
Drop(f, k) == [x \in (DOMAIN f) \ {k} |-> f[x]]

SetAdd(seq, x) == IF x \in Range(seq) THEN seq ELSE Append(seq, x)
SetDelete(seq, x) == SelectSeq(seq, LAMBDA y : y # x)

(***************************************************************************)
(* Targets of the size pool: the parent elements, and each instance itself *)
(* (this.parentElement || this).  parent[i] = NoParent is an instance with *)
(* no parent element.                                                      *)
(***************************************************************************)
NoParent == 0
SelfTarget(i) == NumParents + i
Targets == 1..(NumParents + NumInst)

\* JavaScript undefined / null for the numeric and reference fields.
Undefined == 0 - 1
NoTarget == 0
NoCallback == 0
NoConfig == [rootMargin |-> Null, threshold |-> Zero]
NoViewCallback == [inst |-> 0, rootMargin |-> Null, threshold |-> Zero]
NoImg == [present |-> FALSE, attrs |-> EmptyMap]

(***************************************************************************)
(* The state.  The registries (src/lazy-img.js:32-62), the platform        *)
(* objects behind them, the environment, and the fields, attributes and    *)
(* shadow DOM of each instance.                                            *)
(***************************************************************************)
VARIABLES
    sharedObservers,              \* WeakMap target -> {observer, callbacks}
    windowResizeCallbacks,        \* Set of callbacks
    windowResizeListenerAttached, \* flag
    sharedIntersectionObservers,  \* Map key -> {observer, callbacks}
    resizeObserving,              \* platform: connected ResizeObservers per target
    roPending,                    \* platform: a size notification is due for target
    targetSize,                   \* environment: inline size of each target
    windowListener,               \* platform: handleWindowResize is a window listener
    intersectionObserving,        \* platform: connected IntersectionObservers per key
    innerWidth,                   \* environment: window.innerWidth
    activeMQ,                     \* environment: --lazy-img-mq on :root
    connected,                    \* instance is in the document
    parent,                       \* parentElement of the instance
    attrs,                        \* observed attributes of the host element
    hasLoaded,                    \* host has the loaded attribute
    hasQualifies,                 \* host has the qualifies attribute
    loaded,                       \* this._loaded
    throttleTimeout,              \* this._throttleTimeout (index into timers, 0 = null)
    timers,                       \* platform: pending setTimeout callbacks of the instance
    namedBreakpoints,             \* this._namedBreakpoints
    minInlineSize,                \* this._minInlineSize
    queryType,                    \* this._queryType
    parsedBreakpoints,            \* this._parsedBreakpoints
    currentSize,                  \* this._currentSize
    intersectionConfig,           \* this._intersectionConfig
    intersectionCallback,         \* this._intersectionCallback
    observedTarget,               \* this._observedTarget
    resizeCallback,               \* this._resizeCallback
    handleResize,                 \* this._handleResize
    styleInjected,                \* this._styleInjected
    img,                          \* the img element in the shadow root
    hasRegistry,                  \* environment: window.customElements exists
    customElements,               \* platform: the constructor registered under each tag
    log                           \* what the last step did: calls, warnings, events

vars ==
    <<sharedObservers, windowResizeCallbacks, windowResizeListenerAttached,
      sharedIntersectionObservers, resizeObserving, roPending, targetSize,
      windowListener, intersectionObserving, innerWidth, activeMQ, connected,
      parent, attrs, hasLoaded, hasQualifies, loaded, throttleTimeout, timers,
      namedBreakpoints, minInlineSize, queryType, parsedBreakpoints,
      currentSize, intersectionConfig, intersectionCallback, observedTarget,
      resizeCallback, handleResize, styleInjected, img, hasRegistry,
      customElements, log>>

\* The state as one record, so that a handler is a function from state to
\* state and handlers compose as the code's calls do.
State ==
    [sharedObservers |-> sharedObservers,
     windowResizeCallbacks |-> windowResizeCallbacks,
     windowResizeListenerAttached |-> windowResizeListenerAttached,
     sharedIntersectionObservers |-> sharedIntersectionObservers,
     resizeObserving |-> resizeObserving,
     roPending |-> roPending,
     targetSize |-> targetSize,
     windowListener |-> windowListener,
     intersectionObserving |-> intersectionObserving,
     innerWidth |-> innerWidth,
     activeMQ |-> activeMQ,
     connected |-> connected,
     parent |-> parent,
     attrs |-> attrs,
     hasLoaded |-> hasLoaded,
     hasQualifies |-> hasQualifies,
     loaded |-> loaded,
     throttleTimeout |-> throttleTimeout,
     timers |-> timers,
     namedBreakpoints |-> namedBreakpoints,
     minInlineSize |-> minInlineSize,
     queryType |-> queryType,
     parsedBreakpoints |-> parsedBreakpoints,
     currentSize |-> currentSize,
     intersectionConfig |-> intersectionConfig,
     intersectionCallback |-> intersectionCallback,
     observedTarget |-> observedTarget,
     resizeCallback |-> resizeCallback,
     handleResize |-> handleResize,
     styleInjected |-> styleInjected,
     img |-> img,
     hasRegistry |-> hasRegistry,
     customElements |-> customElements,
     log |-> <<>>]

Commit(s) ==
    /\ sharedObservers' = s.sharedObservers
    /\ windowResizeCallbacks' = s.windowResizeCallbacks
    /\ windowResizeListenerAttached' = s.windowResizeListenerAttached
    /\ sharedIntersectionObservers' = s.sharedIntersectionObservers
    /\ resizeObserving' = s.resizeObserving
    /\ roPending' = s.roPending
    /\ targetSize' = s.targetSize
    /\ windowListener' = s.windowListener
    /\ intersectionObserving' = s.intersectionObserving
    /\ innerWidth' = s.innerWidth
    /\ activeMQ' = s.activeMQ
    /\ connected' = s.connected
    /\ parent' = s.parent
    /\ attrs' = s.attrs
    /\ hasLoaded' = s.hasLoaded
    /\ hasQualifies' = s.hasQualifies
    /\ loaded' = s.loaded
    /\ throttleTimeout' = s.throttleTimeout
    /\ timers' = s.timers
    /\ namedBreakpoints' = s.namedBreakpoints
    /\ minInlineSize' = s.minInlineSize
    /\ queryType' = s.queryType
    /\ parsedBreakpoints' = s.parsedBreakpoints
    /\ currentSize' = s.currentSize
    /\ intersectionConfig' = s.intersectionConfig
    /\ intersectionCallback' = s.intersectionCallback
    /\ observedTarget' = s.observedTarget
    /\ resizeCallback' = s.resizeCallback
    /\ handleResize' = s.handleResize
    /\ styleInjected' = s.styleInjected
    /\ img' = s.img
    /\ hasRegistry' = s.hasRegistry
    /\ customElements' = s.customElements
    /\ log' = s.log

\* One entry of the log: op names the call, inst the instance (0: none),
\* num and str its arguments.
LogEntry(op, i, num, str) == [op |-> op, inst |-> i, num |-> num, str |-> str]
Logged(s, op, i, num, str) == [s EXCEPT !.log = Append(@, LogEntry(op, i, num, str))]

(***************************************************************************)
(* Registration (src/define.js).  The registry maps a tag name to the      *)
(* constructor defined under it.  CustomElementRegistry.define throws when *)
(* the name is already defined or the constructor is already registered    *)
(* under another name.                                                     *)
(***************************************************************************)
TagNames == {"lazy-img", "x-img", "y-img", "z-img"}
NotDefined == "undefined"
LazyImgElement == "LazyImgElement"
OtherElement == "another element"

\* registry.define(name, constructor): the state after it, and whether it threw.
registryDefine(s, name, constructor) ==
    LET s1 == Logged(s, "registry.define", 0, 0, <<name>>)
    IN  IF \/ s.customElements[name] # NotDefined
           \/ /\ constructor = LazyImgElement
              /\ \E t \in TagNames : s.customElements[t] = LazyImgElement
        THEN [st |-> s1, threw |-> TRUE]
        ELSE [st |-> [s1 EXCEPT !.customElements[name] = constructor], threw |-> FALSE]

defineLazyImg(s, tagName) ==
    LET s1 == Logged(s, "defineLazyImg", 0, 0, <<tagName>>)
    IN  IF ~s.hasRegistry
        THEN Logged(s1, "return", 0, 0, <<"false">>)
        ELSE IF s.customElements[tagName] = NotDefined
        THEN LET r == registryDefine(s1, tagName, LazyImgElement)
             IN  IF r.threw
                 THEN Logged(r.st, "throw", 0, 0, <<"NotSupportedError">>)
                 ELSE Logged(r.st, "return", 0, 0, <<"true">>)
        ELSE Logged(s1, "return", 0, 0, <<"true">>)

(***************************************************************************)
(* Window-resize pool (src/lazy-img.js:36-58).                             *)
(***************************************************************************)
addWindowResizeCallback(s, callback) ==
    LET s1 == [s EXCEPT !.windowResizeCallbacks = SetAdd(@, callback)]
    IN  IF ~s1.windowResizeListenerAttached
        THEN Logged([s1 EXCEPT !.windowListener = TRUE,
                               !.windowResizeListenerAttached = TRUE],
                    "window.addEventListener", 0, 0, <<>>)
        ELSE s1

\* Mutant: the listener is detached whenever a callback leaves.
removeWindowResizeCallbackAlways(s, callback) ==
    LET s1 == [s EXCEPT !.windowResizeCallbacks = SetDelete(@, callback)]
    IN  IF s1.windowResizeListenerAttached
        THEN Logged([s1 EXCEPT !.windowListener = FALSE,
                               !.windowResizeListenerAttached = FALSE],
                    "window.removeEventListener", 0, 0, <<>>)
        ELSE s1

removeWindowResizeCallback(s, callback) ==
    LET s1 == [s EXCEPT !.windowResizeCallbacks = SetDelete(@, callback)]
    IN  IF s1.windowResizeCallbacks = <<>> /\ s1.windowResizeListenerAttached
        THEN Logged([s1 EXCEPT !.windowListener = FALSE,
                               !.windowResizeListenerAttached = FALSE],
                    "window.removeEventListener", 0, 0, <<>>)
        ELSE s1

(***************************************************************************)
(* Intersection pool (src/lazy-img.js:62, 117-175).  An entry holds the    *)
(* callbacks and, for its observer, the set of observed elements.          *)
(***************************************************************************)
Count(m, k) == IF k \in DOMAIN m THEN m[k] ELSE 0
Inc(m, k) == Put(m, k, Count(m, k) + 1)
Dec(m, k) == IF Count(m, k) <= 1 THEN Drop(m, k) ELSE Put(m, k, m[k] - 1)

getSharedIntersectionObserver(s, rootMargin, threshold) ==
    LET key == getIntersectionObserverKey(rootMargin, threshold)
    IN  IF key \notin DOMAIN s.sharedIntersectionObservers
        THEN Logged([s EXCEPT !.sharedIntersectionObservers =
                                  Put(@, key, [callbacks |-> <<>>, observed |-> {}]),
                              !.intersectionObserving = Inc(@, key)],
                    "new IntersectionObserver", 0, 0, key)
        ELSE s

\* Mutant: the entry and its observer outlive the last callback.
removeSharedIntersectionObserverKeepsEntry(s, rootMargin, threshold, target, callback) ==
    LET key == getIntersectionObserverKey(rootMargin, threshold)
    IN  IF key \in DOMAIN s.sharedIntersectionObservers
        THEN LET shared == s.sharedIntersectionObservers[key]
                 s1 == Logged(s, "IntersectionObserver.unobserve", target, 0, key)
             IN  [s1 EXCEPT !.sharedIntersectionObservers[key] =
                                [callbacks |-> SetDelete(shared.callbacks, callback),
                                 observed |-> shared.observed \ {target}]]
        ELSE s

removeSharedIntersectionObserver(s, rootMargin, threshold, target, callback) ==
    LET key == getIntersectionObserverKey(rootMargin, threshold)
    IN  IF key \in DOMAIN s.sharedIntersectionObservers
        THEN LET shared == s.sharedIntersectionObservers[key]
                 cbs == SetDelete(shared.callbacks, callback)
                 s1 == Logged(s, "IntersectionObserver.unobserve", target, 0, key)
             IN  IF cbs = <<>>
                 THEN Logged([s1 EXCEPT !.sharedIntersectionObservers = Drop(@, key),
                                        !.intersectionObserving = Dec(@, key)],
                             "IntersectionObserver.disconnect", 0, 0, key)
                 ELSE [s1 EXCEPT !.sharedIntersectionObservers[key] =
                                     [callbacks |-> cbs,
                                      observed |-> shared.observed \ {target}]]
        ELSE s

(***************************************************************************)
(* Size pool (src/lazy-img.js:32, 228-256).  A new ResizeObserver reports  *)
(* the size of its target once after observe().                            *)
(***************************************************************************)
getSharedObserver(s, target) ==
    IF target \notin DOMAIN s.sharedObservers
    THEN Logged([s EXCEPT !.sharedObservers = Put(@, target, [callbacks |-> <<>>]),
                          !.resizeObserving[target] = @ + 1,
                          !.roPending[target] = TRUE],
                "new ResizeObserver", 0, target, <<>>)
    ELSE s

\* Mutant: the observer is torn down whenever a callback leaves.
removeSharedObserverAlways(s, target, callback) ==
    IF target \in DOMAIN s.sharedObservers
    THEN Logged([s EXCEPT !.sharedObservers = Drop(@, target),
                          !.resizeObserving[target] = IF @ > 0 THEN @ - 1 ELSE 0,
                          !.roPending[target] = @ /\ s.resizeObserving[target] > 1],
                "ResizeObserver.disconnect", 0, target, <<>>)
    ELSE s

\* Mutant: the entry is dropped without looking at the callbacks left.
removeSharedObserverUnguarded(s, target, callback) ==
    IF target \in DOMAIN s.sharedObservers
    THEN LET cbs == SetDelete(s.sharedObservers[target].callbacks, callback)
         IN  IF cbs = <<>> \/ callback \notin Range(s.sharedObservers[target].callbacks)
             THEN Logged([s EXCEPT !.sharedObservers = Drop(@, target),
                                   !.resizeObserving[target] = IF @ > 0 THEN @ - 1 ELSE 0,
                                   !.roPending[target] = @ /\ s.resizeObserving[target] > 1],
                         "ResizeObserver.disconnect", 0, target, <<>>)
             ELSE [s EXCEPT !.sharedObservers[target].callbacks = cbs]
    ELSE s

removeSharedObserver(s, target, callback) ==
    IF target \in DOMAIN s.sharedObservers
    THEN LET cbs == SetDelete(s.sharedObservers[target].callbacks, callback)
         IN  IF cbs = <<>>
             THEN Logged([s EXCEPT !.sharedObservers = Drop(@, target),
                                   !.resizeObserving[target] = IF @ > 0 THEN @ - 1 ELSE 0,
                                   !.roPending[target] = @ /\ s.resizeObserving[target] > 1],
                         "ResizeObserver.disconnect", 0, target, <<>>)
             ELSE [s EXCEPT !.sharedObservers[target].callbacks = cbs]
    ELSE s

(***************************************************************************)
(* Renderer (src/lazy-img.js:273-285, 573-627).                            *)
(***************************************************************************)
getImgAttributes(s, i) ==
    LET names == {a \in Range(IMG_ATTRIBUTES) : s.attrs[i][a] # Null} \cup {"alt"}
    IN  [a \in names |-> IF s.attrs[i][a] # Null THEN escapeHtml(s.attrs[i][a]) ELSE <<>>]

render(s, i) ==
    LET src == s.attrs[i]["src"]
        shouldRenderImage ==
            \/ s.loaded[i]
            \/ /\ s.queryType[i] # ViewStr
               /\ ~Truthy(s.minInlineSize[i])
               /\ ~Truthy(s.namedBreakpoints[i])
        imgAttrs == getImgAttributes(s, i)
        old == s.img[i].attrs
    IN  IF ~Truthy(src)
        THEN [s EXCEPT !.img[i] = NoImg]
        ELSE IF shouldRenderImage
        THEN [s EXCEPT !.styleInjected[i] = TRUE,
                       !.img[i] = IF s.img[i].present
                                  THEN [present |-> TRUE,
                                        attrs |-> [a \in (DOMAIN old) \cup (DOMAIN imgAttrs) |->
                                                     IF a \in DOMAIN imgAttrs
                                                     THEN imgAttrs[a] ELSE old[a]]]
                                  ELSE [present |-> TRUE, attrs |-> imgAttrs]]
        ELSE [s EXCEPT !.styleInjected[i] = TRUE, !.img[i] = NoImg]

(***************************************************************************)
(* Qualification and load (src/lazy-img.js:211-215, 489-571).              *)
(***************************************************************************)
NoBreakpoints == [isNull |-> TRUE, list |-> <<>>]
Breakpoints(v) == [isNull |-> FALSE, list |-> ParseBreakpoints(v)]

getActiveMQ(s) == Trim(s.activeMQ)

\* this._currentSize || 0
CurrentSizeOr0(s, i) == IF s.currentSize[i] = Undefined THEN 0 ELSE s.currentSize[i]

\* Mutant: the load goes ahead without a src.
loadImageWithoutSrc(s, i) ==
    LET src == s.attrs[i]["src"]
    IN  Logged(render([s EXCEPT !.loaded[i] = TRUE, !.hasLoaded[i] = TRUE], i),
               "dispatchEvent lazy-img:loaded", i, 0, src)

loadImage(s, i) ==
    LET src == s.attrs[i]["src"]
    IN  IF ~Truthy(src)
        THEN s
        ELSE Logged(render([s EXCEPT !.loaded[i] = TRUE, !.hasLoaded[i] = TRUE], i),
                    "dispatchEvent lazy-img:loaded", i, 0, src)

\* Mutant: the size comparison is strict.
QualifiesStrict(s, i) ==
    IF ~s.parsedBreakpoints[i].isNull
    THEN IF ~Truthy(getActiveMQ(s))
         THEN [q |-> FALSE, warning |-> "missing-breakpoint-signal"]
         ELSE [q |-> Includes(s.parsedBreakpoints[i].list, getActiveMQ(s)),
               warning |-> "none"]
    ELSE IF Truthy(s.minInlineSize[i])
    THEN IF ParseInt(s.minInlineSize[i]).nan
         THEN [q |-> FALSE, warning |-> "invalid-size-threshold"]
         ELSE [q |-> CurrentSizeOr0(s, i) > ParseInt(s.minInlineSize[i]).val,
               warning |-> "none"]
    ELSE [q |-> TRUE, warning |-> "none"]

\* Mutant: the size threshold is looked at before the named breakpoints.
QualifiesSizeFirst(s, i) ==
    IF Truthy(s.minInlineSize[i])
    THEN IF ParseInt(s.minInlineSize[i]).nan
         THEN [q |-> FALSE, warning |-> "invalid-size-threshold"]
         ELSE [q |-> CurrentSizeOr0(s, i) >= ParseInt(s.minInlineSize[i]).val,
               warning |-> "none"]
    ELSE IF ~s.parsedBreakpoints[i].isNull
    THEN IF ~Truthy(getActiveMQ(s))
         THEN [q |-> FALSE, warning |-> "missing-breakpoint-signal"]
         ELSE [q |-> Includes(s.parsedBreakpoints[i].list, getActiveMQ(s)),
               warning |-> "none"]
    ELSE [q |-> TRUE, warning |-> "none"]

\* Mutant: a threshold that is not a number is no condition.
QualifiesIgnoresInvalid(s, i) ==
    IF ~s.parsedBreakpoints[i].isNull
    THEN IF ~Truthy(getActiveMQ(s))
         THEN [q |-> FALSE, warning |-> "missing-breakpoint-signal"]
         ELSE [q |-> Includes(s.parsedBreakpoints[i].list, getActiveMQ(s)),
               warning |-> "none"]
    ELSE IF Truthy(s.minInlineSize[i]) /\ ~ParseInt(s.minInlineSize[i]).nan
    THEN [q |-> CurrentSizeOr0(s, i) >= ParseInt(s.minInlineSize[i]).val,
          warning |-> "none"]
    ELSE [q |-> TRUE, warning |-> "none"]

\* Mutant: without a condition nothing qualifies.
QualifiesNeedsCondition(s, i) ==
    IF ~s.parsedBreakpoints[i].isNull
    THEN IF ~Truthy(getActiveMQ(s))
         THEN [q |-> FALSE, warning |-> "missing-breakpoint-signal"]
         ELSE [q |-> Includes(s.parsedBreakpoints[i].list, getActiveMQ(s)),
               warning |-> "none"]
    ELSE IF Truthy(s.minInlineSize[i])
    THEN IF ParseInt(s.minInlineSize[i]).nan
         THEN [q |-> FALSE, warning |-> "invalid-size-threshold"]
         ELSE [q |-> CurrentSizeOr0(s, i) >= ParseInt(s.minInlineSize[i]).val,
               warning |-> "none"]
    ELSE [q |-> FALSE, warning |-> "none"]

\* The value _updateQualifies computes, with the warning it emits.
Qualifies(s, i) ==
    IF ~s.parsedBreakpoints[i].isNull
    THEN IF ~Truthy(getActiveMQ(s))
         THEN [q |-> FALSE, warning |-> "missing-breakpoint-signal"]
         ELSE [q |-> Includes(s.parsedBreakpoints[i].list, getActiveMQ(s)),
               warning |-> "none"]
    ELSE IF Truthy(s.minInlineSize[i])
    THEN IF ParseInt(s.minInlineSize[i]).nan
         THEN [q |-> FALSE, warning |-> "invalid-size-threshold"]
         ELSE [q |-> CurrentSizeOr0(s, i) >= ParseInt(s.minInlineSize[i]).val,
               warning |-> "none"]
    ELSE [q |-> TRUE, warning |-> "none"]

\* Mutant: the qualifies attribute of a loaded instance is left alone.
updateQualifiesUntilLoaded(s, i) ==
    IF s.queryType[i] = ViewStr
    THEN [st |-> s, q |-> TRUE]
    ELSE LET r == Qualifies(s, i)
             s1 == IF r.warning # "none"
                   THEN Logged(s, "console.warn", i, 0, <<r.warning>>)
                   ELSE s
         IN  [st |-> IF s.loaded[i] THEN s1 ELSE [s1 EXCEPT !.hasQualifies[i] = r.q],
              q |-> r.q]

\* _updateQualifies: the state after it and the value it returns.
updateQualifies(s, i) ==
    IF s.queryType[i] = ViewStr
    THEN [st |-> s, q |-> TRUE]
    ELSE LET r == Qualifies(s, i)
             s1 == IF r.warning # "none"
                   THEN Logged(s, "console.warn", i, 0, <<r.warning>>)
                   ELSE s
         IN  [st |-> [s1 EXCEPT !.hasQualifies[i] = r.q], q |-> r.q]

\* _shouldLoad: the state after it and the value it returns.
shouldLoad(s, i) ==
    LET u == updateQualifies(s, i)
    IN  [st |-> u.st, q |-> u.q /\ ~s.loaded[i]]

\* Mutant: a check that does not qualify takes the loaded flag back.
checkAndLoadOrUnload(s, i) ==
    LET r == shouldLoad(Logged(s, "checkAndLoad", i, s.currentSize[i], <<>>), i)
    IN  IF r.q THEN loadImage(r.st, i)
        ELSE [r.st EXCEPT !.loaded[i] = s.loaded[i] /\ r.st.hasQualifies[i]]

checkAndLoad(s, i) ==
    LET r == shouldLoad(Logged(s, "checkAndLoad", i, s.currentSize[i], <<>>), i)
    IN  IF r.q THEN loadImage(r.st, i) ELSE r.st

(***************************************************************************)
(* Throttle (src/lazy-img.js:479-487).  timers[i] holds the pending        *)
(* setTimeout callbacks of instance i, each the action it will run;        *)
(* throttleTimeout[i] is the handle: the index of the timer it names.      *)
(***************************************************************************)
EntriesAction(size) == [kind |-> "entries", size |-> size]
WindowAction == [kind |-> "window", size |-> 0]

RemoveAt(seq, k) == [j \in 1..(Len(seq) - 1) |-> IF j < k THEN seq[j] ELSE seq[j + 1]]

\* Mutant: the pending timer is not cancelled.
clearTimeoutNoop(pending, handle) == pending

clearTimeout(pending, handle) ==
    IF handle \in 1..Len(pending) THEN RemoveAt(pending, handle) ELSE pending

throttledResize(s, i, action) ==
    LET s1 == IF s.throttleTimeout[i] # 0
              THEN Logged([s EXCEPT !.timers[i] = clearTimeout(@, s.throttleTimeout[i])],
                          "clearTimeout", i, 0, <<>>)
              ELSE s
    IN  [s1 EXCEPT !.timers[i] = Append(@, action),
                   !.throttleTimeout[i] = Len(s1.timers[i]) + 1]

\* The function given to setTimeout: the action, then the handle is cleared.
\* A container action reads the size of the entries it was created with; a
\* media action reads window.innerWidth when it runs (lines 414-421, 430-433).
\* Mutant: the expired timer's handle is kept.
timeoutCallbackKeepsHandle(s, i, action) ==
    LET s1 == Logged(s, "throttled action", i, action.size, <<action.kind>>)
        size == IF action.kind = "entries" THEN action.size ELSE s.innerWidth
    IN  checkAndLoad([s1 EXCEPT !.currentSize[i] = size], i)

timeoutCallback(s, i, action) ==
    LET s1 == Logged(s, "throttled action", i, action.size, <<action.kind>>)
        size == IF action.kind = "entries" THEN action.size ELSE s.innerWidth
        s2 == checkAndLoad([s1 EXCEPT !.currentSize[i] = size], i)
    IN  [s2 EXCEPT !.throttleTimeout[i] = 0]

\* this._resizeCallback (lines 413-422) and this._handleResize (429-434).
resizeCallback_(s, i, size) ==
    throttledResize(Logged(s, "resizeCallback", i, size, <<>>), i, EntriesAction(size))

handleResize_(s, i) ==
    throttledResize(Logged(s, "handleResize", i, 0, <<>>), i, WindowAction)

\* this._intersectionCallback (lines 389-400), with the rootMargin and
\* threshold its closure captured.
intersectionCallback_(s, cb) ==
    LET i == cb.inst
        s1 == loadImage(Logged(s, "intersectionCallback", i, 0, <<>>), i)
        s2 == removeSharedIntersectionObserver(s1, cb.rootMargin, cb.threshold, i,
                                               s1.intersectionCallback[i])
    IN  [s2 EXCEPT !.intersectionCallback[i] = NoViewCallback,
                   !.intersectionConfig[i] = NoConfig]

(***************************************************************************)
(* The dispatch handlers of the three pools: Set.prototype.forEach visits  *)
(* the callbacks in insertion order and skips one deleted before its turn. *)
(***************************************************************************)
RECURSIVE ResizeFanOut(_, _, _)
ResizeFanOut(s, cbs, size) ==
    IF cbs = <<>> THEN s
    ELSE ResizeFanOut(resizeCallback_(s, Head(cbs), size), Tail(cbs), size)

\* Mutant: only the first subscriber is called.
resizeObserverCallbackFirstOnly(s, target, size) ==
    IF target \in DOMAIN s.sharedObservers
    THEN resizeCallback_(s, Head(s.sharedObservers[target].callbacks), size)
    ELSE s

\* The ResizeObserver callback of a pool entry (lines 231-234).
\* Mutant: the callbacks are called last-registered first.
resizeObserverCallbackReversed(s, target, size) ==
    IF target \in DOMAIN s.sharedObservers
    THEN LET cbs == s.sharedObservers[target].callbacks
         IN  ResizeFanOut(s, [k \in 1..Len(cbs) |-> cbs[Len(cbs) + 1 - k]], size)
    ELSE s

resizeObserverCallback(s, target, size) ==
    IF target \in DOMAIN s.sharedObservers
    THEN ResizeFanOut(s, s.sharedObservers[target].callbacks, size)
    ELSE s

RECURSIVE WindowFanOut(_, _)
WindowFanOut(s, cbs) ==
    IF cbs = <<>> THEN s
    ELSE WindowFanOut(handleResize_(s, Head(cbs)), Tail(cbs))

handleWindowResize(s) == WindowFanOut(s, s.windowResizeCallbacks)

IntersectionCallbacks(s, key) ==
    IF key \in DOMAIN s.sharedIntersectionObservers
    THEN s.sharedIntersectionObservers[key].callbacks
    ELSE <<>>

RECURSIVE IntersectionFanOut(_, _, _)
IntersectionFanOut(s, key, cbs) ==
    IF cbs = <<>> THEN s
    ELSE IntersectionFanOut(
             IF Head(cbs) \in Range(IntersectionCallbacks(s, key))
             THEN intersectionCallback_(s, Head(cbs))
             ELSE s,
             key, Tail(cbs))

\* Mutant: every entry counts, intersecting or not.
RECURSIVE intersectionObserverCallbackAnyEntry(_, _, _)
intersectionObserverCallbackAnyEntry(s, key, entries) ==
    IF entries = <<>> THEN s
    ELSE intersectionObserverCallbackAnyEntry(
             IntersectionFanOut(s, key, IntersectionCallbacks(s, key)),
             key, Tail(entries))

\* The IntersectionObserver callback of a pool entry (lines 133-140).
RECURSIVE intersectionObserverCallback(_, _, _)
intersectionObserverCallback(s, key, entries) ==
    IF entries = <<>> THEN s
    ELSE intersectionObserverCallback(
             IF Head(entries).isIntersecting
             THEN IntersectionFanOut(s, key, IntersectionCallbacks(s, key))
             ELSE s,
             key, Tail(entries))

(***************************************************************************)
(* Lifecycle (src/lazy-img.js:287-477).                                    *)
(***************************************************************************)
QueryOrDefault(v) == IF Truthy(v) THEN v ELSE ContainerStr

setupResizeWatcher(s, i) ==
    IF s.queryType[i] = ViewStr
    THEN LET viewRangeStart == IF Truthy(s.attrs[i]["view-range-start"])
                               THEN s.attrs[i]["view-range-start"]
                               ELSE Entry0Str
             parsed == parseViewRange(viewRangeStart)
             rootMargin == parsed.rootMargin
             threshold == parsed.threshold
             key == getIntersectionObserverKey(rootMargin, threshold)
             cb == [inst |-> i, rootMargin |-> rootMargin, threshold |-> threshold]
             s1 == IF parsed.warning # "none"
                   THEN Logged(s, "console.warn", i, 0, <<parsed.warning>>)
                   ELSE s
             s2 == [s1 EXCEPT !.intersectionConfig[i] =
                                  [rootMargin |-> rootMargin, threshold |-> threshold],
                              !.intersectionCallback[i] = cb]
             s3 == getSharedIntersectionObserver(s2, rootMargin, threshold)
         IN  Logged([s3 EXCEPT !.sharedIntersectionObservers[key] =
                                   [callbacks |-> SetAdd(@.callbacks, cb),
                                    observed |-> @.observed \cup {i}]],
                    "IntersectionObserver.observe", i, 0, key)
    ELSE IF s.queryType[i] = ContainerStr
    THEN LET targetElement == IF s.parent[i] # NoParent THEN s.parent[i] ELSE SelfTarget(i)
             s1 == [s EXCEPT !.observedTarget[i] = targetElement,
                             !.resizeCallback[i] = i]
             s2 == getSharedObserver(s1, targetElement)
             s3 == [s2 EXCEPT !.sharedObservers[targetElement].callbacks = SetAdd(@, i)]
         IN  checkAndLoad(s3, i)
    ELSE LET s1 == addWindowResizeCallback([s EXCEPT !.handleResize[i] = i], i)
         IN  checkAndLoad([s1 EXCEPT !.currentSize[i] = s1.innerWidth], i)

\* Mutant: the teardown leaves only the pool of the current query.
cleanupResizeWatcherByMode(s, i) ==
    LET s1 == IF s.queryType[i] = ViewStr
                 /\ s.intersectionCallback[i] # NoViewCallback /\ s.intersectionConfig[i] # NoConfig
              THEN [removeSharedIntersectionObserver(
                        s, s.intersectionConfig[i].rootMargin,
                        s.intersectionConfig[i].threshold, i, s.intersectionCallback[i])
                    EXCEPT !.intersectionCallback[i] = NoViewCallback,
                           !.intersectionConfig[i] = NoConfig]
              ELSE s
        s2 == IF s.queryType[i] = ContainerStr
                 /\ s1.observedTarget[i] # NoTarget /\ s1.resizeCallback[i] # NoCallback
              THEN [removeSharedObserver(s1, s1.observedTarget[i], s1.resizeCallback[i])
                    EXCEPT !.observedTarget[i] = NoTarget,
                           !.resizeCallback[i] = NoCallback]
              ELSE s1
        s3 == IF s.queryType[i] = MediaStr /\ s2.handleResize[i] # NoCallback
              THEN [removeWindowResizeCallback(s2, s2.handleResize[i])
                    EXCEPT !.handleResize[i] = NoCallback]
              ELSE s2
    IN  IF s3.throttleTimeout[i] # 0
        THEN Logged([s3 EXCEPT !.timers[i] = clearTimeout(@, s3.throttleTimeout[i]),
                               !.throttleTimeout[i] = 0],
                    "clearTimeout", i, 0, <<>>)
        ELSE s3

\* Mutant: the pending timer survives the teardown.
cleanupResizeWatcherKeepsTimer(s, i) ==
    LET s1 == IF s.intersectionCallback[i] # NoViewCallback /\ s.intersectionConfig[i] # NoConfig
              THEN [removeSharedIntersectionObserver(
                        s, s.intersectionConfig[i].rootMargin,
                        s.intersectionConfig[i].threshold, i, s.intersectionCallback[i])
                    EXCEPT !.intersectionCallback[i] = NoViewCallback,
                           !.intersectionConfig[i] = NoConfig]
              ELSE s
        s2 == IF s1.observedTarget[i] # NoTarget /\ s1.resizeCallback[i] # NoCallback
              THEN [removeSharedObserver(s1, s1.observedTarget[i], s1.resizeCallback[i])
                    EXCEPT !.observedTarget[i] = NoTarget,
                           !.resizeCallback[i] = NoCallback]
              ELSE s1
        s3 == IF s2.handleResize[i] # NoCallback
              THEN [removeWindowResizeCallback(s2, s2.handleResize[i])
                    EXCEPT !.handleResize[i] = NoCallback]
              ELSE s2
    IN  s3

cleanupResizeWatcher(s, i) ==
    LET s1 == IF s.intersectionCallback[i] # NoViewCallback /\ s.intersectionConfig[i] # NoConfig
              THEN [removeSharedIntersectionObserver(
                        s, s.intersectionConfig[i].rootMargin,
                        s.intersectionConfig[i].threshold, i, s.intersectionCallback[i])
                    EXCEPT !.intersectionCallback[i] = NoViewCallback,
                           !.intersectionConfig[i] = NoConfig]
              ELSE s
        s2 == IF s1.observedTarget[i] # NoTarget /\ s1.resizeCallback[i] # NoCallback
              THEN [removeSharedObserver(s1, s1.observedTarget[i], s1.resizeCallback[i])
                    EXCEPT !.observedTarget[i] = NoTarget,
                           !.resizeCallback[i] = NoCallback]
              ELSE s1
        s3 == IF s2.handleResize[i] # NoCallback
              THEN [removeWindowResizeCallback(s2, s2.handleResize[i])
                    EXCEPT !.handleResize[i] = NoCallback]
              ELSE s2
    IN  IF s3.throttleTimeout[i] # 0
        THEN Logged([s3 EXCEPT !.timers[i] = clearTimeout(@, s3.throttleTimeout[i]),
                               !.throttleTimeout[i] = 0],
                    "clearTimeout", i, 0, <<>>)
        ELSE s3

\* Mutant: attaching starts from not-loaded.
connectedCallbackResets(s, i) ==
    LET nb == s.attrs[i]["named-breakpoints"]
        s1 == [s EXCEPT !.namedBreakpoints[i] = nb,
                        !.minInlineSize[i] = s.attrs[i]["min-inline-size"],
                        !.queryType[i] = QueryOrDefault(s.attrs[i]["query"]),
                        !.parsedBreakpoints[i] = IF Truthy(nb) THEN Breakpoints(nb) ELSE @,
                        !.loaded[i] = FALSE,
                        !.hasLoaded[i] = FALSE]
    IN  setupResizeWatcher(render(s1, i), i)

connectedCallback(s, i) ==
    LET nb == s.attrs[i]["named-breakpoints"]
        s1 == [s EXCEPT !.namedBreakpoints[i] = nb,
                        !.minInlineSize[i] = s.attrs[i]["min-inline-size"],
                        !.queryType[i] = QueryOrDefault(s.attrs[i]["query"]),
                        !.parsedBreakpoints[i] = IF Truthy(nb) THEN Breakpoints(nb) ELSE @]
    IN  setupResizeWatcher(render(s1, i), i)

\* Mutant: a detach cancels the pending timers of all instances.
disconnectedCallbackCancelsAll(s, i) ==
    [cleanupResizeWatcher(s, i) EXCEPT !.timers = [j \in Inst |-> <<>>],
                                       !.throttleTimeout = [j \in Inst |-> 0]]

disconnectedCallback(s, i) == cleanupResizeWatcher(s, i)

\* Mutant: a query change of an attached instance subscribes it under the
\* new mode and keeps the old subscription.
attributeChangedCallbackSubscribes(s, i, name, oldValue, newValue) ==
    IF oldValue = newValue THEN s
    ELSE LET s1 == CASE name = "named-breakpoints" ->
                          [s EXCEPT !.namedBreakpoints[i] = newValue,
                                    !.parsedBreakpoints[i] =
                                        IF Truthy(newValue) THEN Breakpoints(newValue)
                                        ELSE NoBreakpoints]
                     [] name = "min-inline-size" ->
                          [s EXCEPT !.minInlineSize[i] = newValue]
                     [] name = "query" ->
                          IF s.connected[i]
                          THEN setupResizeWatcher(
                                   [s EXCEPT !.queryType[i] = QueryOrDefault(newValue)], i)
                          ELSE [s EXCEPT !.queryType[i] = QueryOrDefault(newValue)]
                     [] OTHER -> s
         IN  IF s1.loaded[i] /\ name \in Range(SOURCE_ATTRIBUTES) THEN s1
             ELSE IF s1.loaded[i] /\ name \in Range(IMG_ATTRIBUTES) THEN render(s1, i)
             ELSE IF s1.loaded[i] /\ name # "query" THEN s1
             ELSE IF name \in Range(CONFIG_ATTRIBUTES)
             THEN checkAndLoad([render(s1, i) EXCEPT !.loaded[i] = FALSE], i)
             ELSE render(s1, i)

\* Mutant: a configuration change resets a loaded instance too.
attributeChangedCallbackResets(s, i, name, oldValue, newValue) ==
    IF oldValue = newValue THEN s
    ELSE LET s1 == CASE name = "named-breakpoints" ->
                          [s EXCEPT !.namedBreakpoints[i] = newValue,
                                    !.parsedBreakpoints[i] =
                                        IF Truthy(newValue) THEN Breakpoints(newValue)
                                        ELSE NoBreakpoints]
                     [] name = "min-inline-size" ->
                          [s EXCEPT !.minInlineSize[i] = newValue]
                     [] name = "query" ->
                          [s EXCEPT !.queryType[i] = QueryOrDefault(newValue)]
                     [] OTHER -> s
         IN  IF s1.loaded[i] /\ name \in Range(SOURCE_ATTRIBUTES) THEN s1
             ELSE IF s1.loaded[i] /\ name \in Range(IMG_ATTRIBUTES) THEN render(s1, i)
             ELSE IF name \in Range(CONFIG_ATTRIBUTES)
             THEN checkAndLoad([render(s1, i) EXCEPT !.loaded[i] = FALSE], i)
             ELSE render(s1, i)

\* Mutant: a change of query moves an attached instance to the pool of the
\* new mode.
attributeChangedCallbackRewires(s, i, name, oldValue, newValue) ==
    IF oldValue = newValue THEN s
    ELSE LET s1 == CASE name = "named-breakpoints" ->
                          [s EXCEPT !.namedBreakpoints[i] = newValue,
                                    !.parsedBreakpoints[i] =
                                        IF Truthy(newValue) THEN Breakpoints(newValue)
                                        ELSE NoBreakpoints]
                     [] name = "min-inline-size" ->
                          [s EXCEPT !.minInlineSize[i] = newValue]
                     [] name = "query" ->
                          IF s.connected[i]
                          THEN setupResizeWatcher(
                                   [cleanupResizeWatcher(s, i)
                                    EXCEPT !.queryType[i] = QueryOrDefault(newValue)], i)
                          ELSE [s EXCEPT !.queryType[i] = QueryOrDefault(newValue)]
                     [] OTHER -> s
         IN  IF s1.loaded[i] /\ name \in Range(SOURCE_ATTRIBUTES) THEN s1
             ELSE IF s1.loaded[i] /\ name \in Range(IMG_ATTRIBUTES) THEN render(s1, i)
             ELSE IF s1.loaded[i] /\ name # "query" THEN s1
             ELSE IF name \in Range(CONFIG_ATTRIBUTES)
             THEN checkAndLoad([render(s1, i) EXCEPT !.loaded[i] = FALSE], i)
             ELSE render(s1, i)

attributeChangedCallback(s, i, name, oldValue, newValue) ==
    IF oldValue = newValue THEN s
    ELSE LET s1 == CASE name = "named-breakpoints" ->
                          [s EXCEPT !.namedBreakpoints[i] = newValue,
                                    !.parsedBreakpoints[i] =
                                        IF Truthy(newValue) THEN Breakpoints(newValue)
                                        ELSE NoBreakpoints]
                     [] name = "min-inline-size" ->
                          [s EXCEPT !.minInlineSize[i] = newValue]
                     [] name = "query" ->
                          [s EXCEPT !.queryType[i] = QueryOrDefault(newValue)]
                     [] OTHER -> s
         IN  IF s1.loaded[i] /\ name \in Range(SOURCE_ATTRIBUTES) THEN s1
             ELSE IF s1.loaded[i] /\ name \in Range(IMG_ATTRIBUTES) THEN render(s1, i)
             ELSE IF s1.loaded[i] /\ name # "query" THEN s1
             ELSE IF name \in Range(CONFIG_ATTRIBUTES)
             THEN checkAndLoad([render(s1, i) EXCEPT !.loaded[i] = FALSE], i)
             ELSE render(s1, i)

(***************************************************************************)
(* Initial state: every instance constructed (lines 287-311), none         *)
(* attached, no attribute set; the registries empty.                       *)
(***************************************************************************)
NoAttrs == [a \in AttrNames |-> Null]

\* The state once every instance is constructed, in an environment with the
\* given window width and target size.
Constructed(width, size) ==
    [sharedObservers |-> EmptyMap,
     windowResizeCallbacks |-> <<>>,
     windowResizeListenerAttached |-> FALSE,
     sharedIntersectionObservers |-> EmptyMap,
     resizeObserving |-> [t \in Targets |-> 0],
     roPending |-> [t \in Targets |-> FALSE],
     targetSize |-> [t \in Targets |-> size],
     windowListener |-> FALSE,
     intersectionObserving |-> EmptyMap,
     innerWidth |-> width,
     activeMQ |-> <<>>,
     connected |-> [i \in Inst |-> FALSE],
     parent |-> [i \in Inst |-> NoParent],
     attrs |-> [i \in Inst |-> NoAttrs],
     hasLoaded |-> [i \in Inst |-> FALSE],
     hasQualifies |-> [i \in Inst |-> FALSE],
     loaded |-> [i \in Inst |-> FALSE],
     throttleTimeout |-> [i \in Inst |-> 0],
     timers |-> [i \in Inst |-> <<>>],
     namedBreakpoints |-> [i \in Inst |-> Null],
     minInlineSize |-> [i \in Inst |-> Null],
     queryType |-> [i \in Inst |-> ContainerStr],
     parsedBreakpoints |-> [i \in Inst |-> NoBreakpoints],
     currentSize |-> [i \in Inst |-> Undefined],
     intersectionConfig |-> [i \in Inst |-> NoConfig],
     intersectionCallback |-> [i \in Inst |-> NoViewCallback],
     observedTarget |-> [i \in Inst |-> NoTarget],
     resizeCallback |-> [i \in Inst |-> NoCallback],
     handleResize |-> [i \in Inst |-> NoCallback],
     styleInjected |-> [i \in Inst |-> FALSE],
     img |-> [i \in Inst |-> NoImg],
     hasRegistry |-> TRUE,
     customElements |-> [t \in TagNames |-> IF t = "lazy-img" THEN LazyImgElement
                                                               ELSE NotDefined],
     log |-> <<>>]

\* s is the current state.
Install(s) ==
    /\ sharedObservers = s.sharedObservers
    /\ windowResizeCallbacks = s.windowResizeCallbacks
    /\ windowResizeListenerAttached = s.windowResizeListenerAttached
    /\ sharedIntersectionObservers = s.sharedIntersectionObservers
    /\ resizeObserving = s.resizeObserving
    /\ roPending = s.roPending
    /\ targetSize = s.targetSize
    /\ windowListener = s.windowListener
    /\ intersectionObserving = s.intersectionObserving
    /\ innerWidth = s.innerWidth
    /\ activeMQ = s.activeMQ
    /\ connected = s.connected
    /\ parent = s.parent
    /\ attrs = s.attrs
    /\ hasLoaded = s.hasLoaded
    /\ hasQualifies = s.hasQualifies
    /\ loaded = s.loaded
    /\ throttleTimeout = s.throttleTimeout
    /\ timers = s.timers
    /\ namedBreakpoints = s.namedBreakpoints
    /\ minInlineSize = s.minInlineSize
    /\ queryType = s.queryType
    /\ parsedBreakpoints = s.parsedBreakpoints
    /\ currentSize = s.currentSize
    /\ intersectionConfig = s.intersectionConfig
    /\ intersectionCallback = s.intersectionCallback
    /\ observedTarget = s.observedTarget
    /\ resizeCallback = s.resizeCallback
    /\ handleResize = s.handleResize
    /\ styleInjected = s.styleInjected
    /\ img = s.img
    /\ hasRegistry = s.hasRegistry
    /\ customElements = s.customElements
    /\ log = <<>>

\* setAttribute / removeAttribute on the host, with the attributeChangedCallback
\* the platform then calls.
setAttribute(s, i, name, value) ==
    attributeChangedCallback(
        Logged([s EXCEPT !.attrs[i][name] = value], "attributeChangedCallback", i, 0, <<name>>),
        i, name, s.attrs[i][name], value)

\* The element is created from markup: the platform calls
\* attributeChangedCallback once per attribute, in document order.
Attribute(name, value) == [name |-> name, value |-> value]

RECURSIVE Upgrade(_, _, _)
Upgrade(s, i, markup) ==
    IF markup = <<>> THEN s
    ELSE Upgrade(setAttribute(s, i, Head(markup).name, Head(markup).value),
                 i, Tail(markup))

\* Every instance i created from markup[i].
RECURSIVE UpgradeAll(_, _, _)
UpgradeAll(s, markup, i) ==
    IF i > NumInst THEN s
    ELSE UpgradeAll(Upgrade(s, i, markup[i]), markup, i + 1)

InitWith(width, size, markup) == Install(UpgradeAll(Constructed(width, size), markup, 1))

(***************************************************************************)
(* Actions: one per platform event.                                        *)
(***************************************************************************)
\* The element is inserted under parent p: connectedCallback.
Attach(i, p) ==
    /\ ~connected[i]
    /\ Commit(connectedCallback(
           [State EXCEPT !.connected[i] = TRUE, !.parent[i] = p], i))

\* The element is removed from the document: disconnectedCallback.
Detach(i) ==
    /\ connected[i]
    /\ Commit(disconnectedCallback(
           [State EXCEPT !.connected[i] = FALSE, !.parent[i] = NoParent], i))

\* setAttribute / removeAttribute (value = Null) of an observed attribute:
\* attributeChangedCallback.  Removing an absent attribute calls nothing.
SetAttribute(i, name, value) ==
    /\ ~(attrs[i][name] = Null /\ value = Null)
    /\ Commit(setAttribute(State, i, name, value))

\* The inline size of a target changes; a connected observer will report it.
ResizeTarget(t, size) ==
    /\ targetSize[t] # size
    /\ Commit([State EXCEPT !.targetSize[t] = size,
                            !.roPending[t] = resizeObserving[t] > 0])

\* The ResizeObserver of target t delivers its entry.
SizeDispatch(t) ==
    /\ roPending[t]
    /\ resizeObserving[t] > 0
    /\ Commit(resizeObserverCallback(
           [State EXCEPT !.roPending[t] = FALSE], t, targetSize[t]))

\* The window is resized: the resize event runs its listener, if any.
WindowResize(width) ==
    /\ innerWidth # width
    /\ Commit(IF windowListener
              THEN handleWindowResize([State EXCEPT !.innerWidth = width])
              ELSE [State EXCEPT !.innerWidth = width])

\* The IntersectionObserver of a pool key delivers entries for elements it observes.
IntersectionEntries(key) ==
    LET obs == sharedIntersectionObservers[key].observed
        E == [target : obs, isIntersecting : BOOLEAN]
    IN  {e \in UNION {[1..n -> E] : n \in 1..MaxEntries} :
            \A j, k \in DOMAIN e : j # k => e[j].target # e[k].target}

IntersectionDispatch(key, entries) ==
    /\ key \in DOMAIN sharedIntersectionObservers
    /\ Count(intersectionObserving, key) > 0
    /\ entries \in IntersectionEntries(key)
    /\ Commit(intersectionObserverCallback(State, key, entries))

\* The k-th pending timer of instance i expires.
TimerExpire(i, k) ==
    /\ k \in 1..Len(timers[i])
    /\ Commit(timeoutCallback(
           [State EXCEPT !.timers[i] = RemoveAt(@, k),
                         !.throttleTimeout[i] = IF @ > k THEN @ - 1 ELSE @],
           i, timers[i][k]))

\* The style system changes --lazy-img-mq on :root.
SetActiveMQ(value) ==
    /\ activeMQ # value
    /\ Commit([State EXCEPT !.activeMQ = value])

\* A script calls element._checkAndLoad(), as the tests do.
CheckAndLoad(i) == Commit(checkAndLoad(State, i))

\* disconnectedCallback runs: the element is removed from the document, or a
\* script calls the method of an element that is not in the document (one
\* never attached, or one detached before).
DisconnectedCallback(i) ==
    /\ i \in Inst
    /\ Commit(disconnectedCallback(
           [State EXCEPT !.connected[i] = FALSE, !.parent[i] = NoParent], i))

\* The unsubscribe function of a pool is called for the callback of instance
\* i, which is not subscribed there.
UnsubscribeSize(t, i) ==
    /\ ~(t \in DOMAIN sharedObservers /\ i \in Range(sharedObservers[t].callbacks))
    /\ Commit(removeSharedObserver(State, t, i))

UnsubscribeWindow(i) ==
    /\ i \notin Range(windowResizeCallbacks)
    /\ Commit(removeWindowResizeCallback(State, i))

UnsubscribeIntersection(rangeValue, i) ==
    LET parsed == parseViewRange(rangeValue)
        key == getIntersectionObserverKey(parsed.rootMargin, parsed.threshold)
        cb == [inst |-> i, rootMargin |-> parsed.rootMargin, threshold |-> parsed.threshold]
    IN  /\ ~(/\ key \in DOMAIN sharedIntersectionObservers
              /\ cb \in Range(sharedIntersectionObservers[key].callbacks))
        /\ Commit(removeSharedIntersectionObserver(State, parsed.rootMargin,
                                                    parsed.threshold, i, cb))

\* A script calls defineLazyImg(tagName).
DefineLazyImg(tagName) == Commit(defineLazyImg(State, tagName))

\* A script of the page defines another element under a free tag name.
DefineOther(tagName) ==
    /\ hasRegistry
    /\ customElements[tagName] = NotDefined
    /\ Commit([State EXCEPT !.customElements[tagName] = OtherElement])

(***************************************************************************)
(* The values the environment draws from.                                  *)
(***************************************************************************)
SrcA == <<"a">>
SrcB == <<"b">>
Size400 == <<"4", "0", "0">>
Size500 == <<"5", "0", "0">>
NotANumber == <<"w", "i", "d", "e">>
Entry25 == <<"e", "n", "t", "r", "y", " ", "2", "5", "%">>

\* What the last step did.
Did(op, i) == \E k \in 1..Len(log) : log[k].op = op /\ log[k].inst = i
Times(op, i) == Cardinality({k \in 1..Len(log) : log[k].op = op /\ log[k].inst = i})

(***************************************************************************)
(* SpecSize: container mode.  Every instance is created from               *)
(* <lazy-img src="a" min-inline-size="400"> (odd instances) or "500" (even *)
(* ones), then attached to and detached from the parents, whose sizes      *)
(* change; observers report and timers expire.                             *)
(***************************************************************************)
SizeMarkup(i) ==
    <<Attribute("src", SrcA),
      Attribute("min-inline-size", IF i % 2 = 1 THEN Size400 ELSE Size500)>>

InitSize == InitWith(300, 300, [i \in Inst |-> SizeMarkup(i)])

NextSize ==
    \/ \E i \in Inst, p \in Parents : Attach(i, p)
    \/ \E i \in Inst : Detach(i)
    \/ \E t \in Parents, size \in {300, 450, 500} : ResizeTarget(t, size)
    \/ \E t \in Targets : SizeDispatch(t)
    \/ \E i \in Inst : \E k \in 1..Len(timers[i]) : TimerExpire(i, k)

SpecSize == InitSize /\ [][NextSize]_vars

\* The target a connected instance observes in container mode.
TargetOf(i) == IF parent[i] # NoParent THEN parent[i] ELSE SelfTarget(i)
\* The instances attached, in container mode, under target t.
AttachedTo(t) == {i \in Inst : connected[i] /\ TargetOf(i) = t}
\* The step is a dispatch of target t's observer: its due notification is
\* consumed and the observer is still connected.
SizeDispatched(t) == roPending[t] /\ ~roPending'[t] /\ resizeObserving'[t] > 0

\* C2: size-pool reference counting.  In every state, each target has at most
\* one connected size observer, and it has a pool entry with a connected
\* observer iff some instance attached in container mode under it is
\* subscribed; the entry's callbacks are exactly those instances.  So after
\* one of two sharing instances detaches the entry and observer live on, and
\* after the last one detaches they are gone.  A dispatch of the observer
\* calls the callback of every instance still subscribed.
SizeEntryMatchesSubscribers ==
    \A t \in Targets :
        /\ resizeObserving[t] <= 1
        /\ (t \in DOMAIN sharedObservers) <=> (AttachedTo(t) # {})
        /\ (t \in DOMAIN sharedObservers) <=> (resizeObserving[t] = 1)
        /\ t \in DOMAIN sharedObservers =>
               Range(sharedObservers[t].callbacks) = AttachedTo(t)

SizeDispatchReachesSubscribers ==
    \A t \in Targets :
        SizeDispatched(t) => \A i \in AttachedTo(t) : Did("resizeCallback", i)'

SizePoolRefCounting ==
    []SizeEntryMatchesSubscribers /\ [][SizeDispatchReachesSubscribers]_vars

\* Two instances have been attached, one has detached, and the observer of
\* the other's target has just called the other.
SizePoolSurvivorDispatched ==
    \E i, j \in Inst :
        /\ i # j
        /\ connected[i] /\ ~connected[j]
        /\ currentSize[j] # Undefined
        /\ resizeObserving[TargetOf(i)] = 1
        /\ Did("resizeCallback", i)

\* C4: debounce.  An instance never has more than one pending timer, and the
\* handle is set iff one is pending.  A trigger cancels the pending timer and
\* leaves exactly one, carrying the trigger's own action, and runs nothing
\* itself.  An action runs only when a timer expires: once, the action of the
\* pending (hence last) trigger, leaving no timer.
AtMostOneTimer ==
    \A i \in Inst :
        /\ Len(timers[i]) <= 1
        /\ (throttleTimeout[i] # 0) <=> (timers[i] # <<>>)

TriggerReplacesTimer ==
    \A t \in Targets :
        SizeDispatched(t) =>
            \A i \in AttachedTo(t) :
                /\ timers'[i] = <<EntriesAction(targetSize[t])>>
                /\ (timers[i] # <<>>) => Did("clearTimeout", i)'
                /\ ~Did("throttled action", i)'
                /\ ~Did("checkAndLoad", i)'

ExpiryRunsLastAction ==
    \A i \in Inst :
        /\ Times("throttled action", i)' <= 1
        /\ Did("throttled action", i)' =>
               /\ timers[i] # <<>>
               /\ timers'[i] = <<>>
               /\ Times("checkAndLoad", i)' = 1
               /\ currentSize'[i] = timers[i][Len(timers[i])].size

Debounce ==
    []AtMostOneTimer /\ [][TriggerReplacesTimer /\ ExpiryRunsLastAction]_vars

\* A trigger has just replaced a pending timer of another size.
DebounceBurst ==
    \E i \in Inst :
        /\ Did("resizeCallback", i)
        /\ Did("clearTimeout", i)
        /\ Len(timers[i]) = 1
        /\ timers[i][1].size = targetSize[TargetOf(i)]

\* C8: independent thresholds on a shared target.  A dispatch of size s gives
\* every instance subscribed to the target its own timer carrying s; when an
\* instance's timer expires, that instance (if not loaded before) is loaded
\* iff s >= its threshold, and no other instance's load state changes.
MarkupThreshold(i) == IF i % 2 = 1 THEN 400 ELSE 500

DispatchSchedulesEach ==
    \A t \in Targets :
        SizeDispatched(t) =>
            \A i \in AttachedTo(t) : timers'[i] = <<EntriesAction(targetSize[t])>>

ExpiryLoadsByOwnThreshold ==
    \A i \in Inst :
        Did("throttled action", i)' =>
            /\ ~loaded[i] => (loaded'[i] <=> timers[i][1].size >= MarkupThreshold(i))
            /\ \A j \in Inst \ {i} : loaded'[j] = loaded[j]

IndependentThresholds ==
    [][DispatchSchedulesEach /\ ExpiryLoadsByOwnThreshold]_vars

\* Thresholds 400 and 500 on one parent resized to 450: only the first loaded.
OnlyFirstLoadedAt450 ==
    \E i, j \in Inst :
        /\ connected[i] /\ connected[j]
        /\ parent[i] = parent[j]
        /\ MarkupThreshold(i) = 400 /\ MarkupThreshold(j) = 500
        /\ currentSize[i] = 450 /\ currentSize[j] = 450
        /\ loaded[i] /\ ~loaded[j]

(***************************************************************************)
(* SpecWindow: media mode.  Every instance is created from                 *)
(* <lazy-img src="a" min-inline-size=... query="media">, attached and      *)
(* detached while the window is resized and timers expire.                 *)
(***************************************************************************)
MediaMarkup(i) == SizeMarkup(i) \o <<Attribute("query", MediaStr)>>

InitWindow == InitWith(300, 300, [i \in Inst |-> MediaMarkup(i)])

NextWindow ==
    \/ \E i \in Inst : Attach(i, 1)
    \/ \E i \in Inst : Detach(i)
    \/ \E width \in {300, 450, 500} : WindowResize(width)
    \/ \E i \in Inst : \E k \in 1..Len(timers[i]) : TimerExpire(i, k)

SpecWindow == InitWindow /\ [][NextWindow]_vars

\* C10: window-resize pool.  In every state the resize listener is on the
\* window iff the callback set is non-empty (and the flag says so), and the
\* set holds the callbacks of exactly the attached media-mode instances.
\* addEventListener is called only in a step that takes the set from empty to
\* non-empty, removeEventListener only in one that empties it.
WindowListenerMatchesCallbacks ==
    /\ windowListener <=> (windowResizeCallbacks # <<>>)
    /\ windowResizeListenerAttached <=> windowListener
    /\ Range(windowResizeCallbacks) = {i \in Inst : connected[i]}

WindowListenerOnlyAtEdges ==
    /\ Did("window.addEventListener", 0)' =>
           /\ windowResizeCallbacks = <<>>
           /\ windowResizeCallbacks' # <<>>
    /\ Did("window.removeEventListener", 0)' =>
           /\ windowResizeCallbacks # <<>>
           /\ windowResizeCallbacks' = <<>>

IntToStr(n) == IF n < 0 THEN <<"-">> \o NatToStr(0 - n) ELSE NatToStr(n)

ThresholdRange == (0 - 1)..MaxThreshold
SizeRange == 0..MaxSize

\* names.join(', ')
RECURSIVE Join(_)
Join(names) ==
    IF Len(names) = 0 THEN <<>>
    ELSE IF Len(names) = 1 THEN names[1]
    ELSE names[1] \o <<",", " ">> \o Join(Tail(names))

\* The lists of names a named-breakpoints attribute is written from; the
\* list holding only the empty name is the attribute named-breakpoints="".
NameLists == {<< <<"m">> >>, << <<"m">>, <<"l">> >>, << <<>> >>}
NoList == <<>>

\* The raw values of --lazy-img-mq, and the name each stands for.
ActiveValues == {<<>>, <<" ", "m">>, <<"l">>}
ActiveName(raw) == IF raw = <<" ", "m">> THEN <<"m">> ELSE raw

ResolverMarkup(t, names, mode) ==
    <<Attribute("src", SrcA), Attribute("min-inline-size", t)>>
    \o (IF names = NoList THEN <<>> ELSE <<Attribute("named-breakpoints", Join(names))>>)
    \o (IF mode = ContainerStr THEN <<>> ELSE <<Attribute("query", mode)>>)

InitResolver ==
    \E t \in {IntToStr(n) : n \in ThresholdRange} \cup {NotANumber},
       names \in NameLists \cup {NoList},
       mode \in {ContainerStr, MediaStr} :
        InitWith(0, 0, [i \in Inst |-> IF i = 1 THEN ResolverMarkup(t, names, mode) ELSE <<>>])

NextResolver ==
    \/ Attach(1, 1)
    \/ \E size \in SizeRange : ResizeTarget(1, size)
    \/ SizeDispatch(1)
    \/ \E width \in SizeRange : WindowResize(width)
    \/ \E k \in 1..Len(timers[1]) : TimerExpire(1, k)
    \/ \E value \in ActiveValues : SetActiveMQ(value)
    \/ CheckAndLoad(1)

SpecResolver == InitResolver /\ [][NextResolver]_vars

\* C6: threshold inclusivity.  For an instance in container or media mode
\* with no named-breakpoints attribute and min-inline-size the decimal
\* string of an integer t, the qualifies attribute is present iff the
\* current size (0 while none is known) is >= t.
ThresholdInclusive ==
    \A i \in Inst : \A t \in ThresholdRange :
        ( /\ attrs[i]["min-inline-size"] = IntToStr(t)
          /\ attrs[i]["named-breakpoints"] = Null
          /\ QueryOrDefault(attrs[i]["query"]) # ViewStr )
        => (hasQualifies[i] <=> (IF currentSize[i] = Undefined THEN 0 ELSE currentSize[i]) >= t)

\* A check at a size exactly equal to a positive threshold has qualified.
QualifiesAtThreshold ==
    \E i \in Inst : \E t \in 1..MaxThreshold :
        /\ attrs[i]["min-inline-size"] = IntToStr(t)
        /\ attrs[i]["named-breakpoints"] = Null
        /\ currentSize[i] = t
        /\ Did("checkAndLoad", i)
        /\ hasQualifies[i]

\* C7 as claimed: with both named-breakpoints and min-inline-size set, every
\* check yields "the active breakpoint is non-empty and is one of the names",
\* whatever the size and the threshold, and the size path is not evaluated.
BreakpointResult(i, names) ==
    Did("checkAndLoad", i)' =>
        /\ hasQualifies'[i] <=>
               /\ ActiveName(activeMQ') # <<>>
               /\ \E k \in 1..Len(names) : names[k] = ActiveName(activeMQ')
        /\ \A k \in 1..Len(log') : log'[k].str # <<"invalid-size-threshold">>

BothSet(i, names) ==
    /\ attrs[i]["named-breakpoints"] = Join(names)
    /\ attrs[i]["min-inline-size"] # Null
    /\ QueryOrDefault(attrs[i]["query"]) # ViewStr

BreakpointPrecedenceWhenSet ==
    [][\A i \in Inst : \A names \in NameLists :
           BothSet(i, names) => BreakpointResult(i, names)]_vars

\* C7 as amended: the same, for a named-breakpoints attribute that is not the
\* empty string.
BreakpointPrecedence ==
    [][\A i \in Inst : \A names \in NameLists :
           (BothSet(i, names) /\ Join(names) # <<>>) => BreakpointResult(i, names)]_vars

\* A check has qualified on the active breakpoint although the size is below
\* the threshold.
QualifiesBelowThreshold ==
    \E i \in Inst : \E t \in 1..MaxThreshold :
        /\ attrs[i]["min-inline-size"] = IntToStr(t)
        /\ Truthy(attrs[i]["named-breakpoints"])
        /\ currentSize[i] # Undefined /\ currentSize[i] < t
        /\ Did("checkAndLoad", i)
        /\ hasQualifies[i]

\* C1: monotonic load under re-checks.  No step of pool dispatch, timer
\* expiry, active-breakpoint change or direct check sets the loaded flag of
\* an instance back to false, nor takes its loaded attribute or its rendered
\* img away.
LoadedStays ==
    \A i \in Inst :
        loaded[i] =>
            /\ loaded'[i]
            /\ hasLoaded'[i]
            /\ img[i].present => img'[i].present

MonotonicLoad == [][LoadedStays]_vars

\* A loaded instance has just been checked and does not qualify any more.
LoadedButNotQualifying ==
    \E i \in Inst :
        /\ loaded[i]
        /\ hasLoaded[i]
        /\ Did("checkAndLoad", i)
        /\ ~hasQualifies[i]

(***************************************************************************)
(* SpecSource: mutation of pass-through attributes.  Instance 1 is created *)
(* from <lazy-img src="a" min-inline-size="400">, attached under a parent  *)
(* that is resized, and scripts set and remove its src and loading         *)
(* attributes.                                                             *)
(***************************************************************************)
LazyStr == <<"l", "a", "z", "y">>

InitSource == InitWith(300, 300, [i \in Inst |-> SizeMarkup(1)])

NextSource ==
    \/ Attach(1, 1)
    \/ Detach(1)
    \/ \E size \in {300, 450} : ResizeTarget(1, size)
    \/ SizeDispatch(1)
    \/ \E k \in 1..Len(timers[1]) : TimerExpire(1, k)
    \/ \E value \in {SrcA, SrcB} : SetAttribute(1, "src", value)
    \/ \E value \in {Null, LazyStr} : SetAttribute(1, "loading", value)

SpecSource == InitSource /\ [][NextSource]_vars

(***************************************************************************)
(* SpecMode: mutation of the mode.  The same instance, whose query         *)
(* attribute scripts set and remove.                                       *)
(***************************************************************************)
InitMode == InitWith(300, 300, [i \in Inst |-> SizeMarkup(1)])

NextMode ==
    \/ Attach(1, 1)
    \/ Detach(1)
    \/ \E size \in {300, 450} : ResizeTarget(1, size)
    \/ SizeDispatch(1)
    \/ \E width \in {300, 450} : WindowResize(width)
    \/ \E k \in 1..Len(timers[1]) : TimerExpire(1, k)
    \/ \E value \in {Null, MediaStr} : SetAttribute(1, "query", value)

SpecMode == InitMode /\ [][NextMode]_vars

\* The step is a mutation of one of the given attributes of instance i.
Mutated(i, names) ==
    \E k \in 1..Len(log') :
        /\ log'[k].op = "attributeChangedCallback"
        /\ log'[k].inst = i
        /\ \E name \in names : log'[k].str = <<name>>

ImgAttr(m, a) == IF m.present /\ a \in DOMAIN m.attrs THEN m.attrs[a] ELSE Null

\* C3: source frozen after load.  A mutation of src, srcset, sizes or any
\* other pass-through attribute of a loaded instance leaves the src, srcset
\* and sizes of its rendered img as they were.
SourceFrozenStep ==
    \A i \in Inst :
        (loaded[i] /\ img[i].present /\ Mutated(i, Range(IMG_ATTRIBUTES)))
        => \A a \in Range(SOURCE_ATTRIBUTES) : ImgAttr(img'[i], a) = ImgAttr(img[i], a)

SourceFrozen == [][SourceFrozenStep]_vars

\* C9: a change of the query attribute of a loaded instance leaves its loaded
\* flag true.
ModeChangeStep ==
    \A i \in Inst : (loaded[i] /\ Mutated(i, {"query"})) => loaded'[i]

ModeChangeKeepsLoaded == [][ModeChangeStep]_vars

(***************************************************************************)
(* SpecView: view mode.  Odd instances are created from                    *)
(* <lazy-img src="a" query="view">, even ones from                         *)
(* <lazy-img query="view" src="a">; they are attached and detached, their  *)
(* view-range-start is set and removed, and the intersection observers     *)
(* deliver entries.                                                        *)
(***************************************************************************)
ViewMarkup(i) ==
    IF i % 2 = 1
    THEN <<Attribute("src", SrcA), Attribute("query", ViewStr)>>
    ELSE <<Attribute("query", ViewStr), Attribute("src", SrcA)>>

InitView == InitWith(300, 300, [i \in Inst |-> ViewMarkup(i)])

NextView ==
    \/ \E i \in Inst : Attach(i, 1)
    \/ \E i \in Inst : Detach(i)
    \/ \E i \in Inst, value \in {Null, Entry25} : SetAttribute(i, "view-range-start", value)
    \/ \E key \in DOMAIN sharedIntersectionObservers :
           \E entries \in IntersectionEntries(key) : IntersectionDispatch(key, entries)

SpecView == InitView /\ [][NextView]_vars

\* C5: view mode one-shot.  An instance in view mode with a src loads in the
\* step in which its intersection callback runs, and in no other: that step
\* takes loaded from false to true, emits the one loaded event and leaves the
\* instance unsubscribed; no step emits the event for an instance that is
\* already loaded.
ViewOneShotStep ==
    \A i \in Inst :
        /\ Did("dispatchEvent lazy-img:loaded", i)' =>
               /\ ~loaded[i]
               /\ Did("intersectionCallback", i)'
        /\ (Did("intersectionCallback", i)' /\ Truthy(attrs[i]["src"])) =>
               /\ ~loaded[i] /\ loaded'[i]
               /\ Times("dispatchEvent lazy-img:loaded", i)' = 1
               /\ Times("intersectionCallback", i)' = 1
               /\ intersectionCallback'[i] = NoViewCallback

ViewOneShot == [][ViewOneShotStep]_vars

\* The pool key of a subscribed view-mode instance.
KeyOf(i) == getIntersectionObserverKey(intersectionConfig[i].rootMargin,
                                       intersectionConfig[i].threshold)
Subscribers(key) ==
    {i \in Inst : intersectionCallback[i] # NoViewCallback /\ KeyOf(i) = key}
AllKeys == DOMAIN sharedIntersectionObservers \cup DOMAIN intersectionObserving
              \cup {KeyOf(i) : i \in Inst}

\* C11: intersection pool.  In every state each key has at most one connected
\* intersection observer, and has one iff it has a pool entry; an entry
\* exists iff some instance is subscribed under the key, and its callbacks
\* are those of exactly the instances subscribed with that parsed
\* configuration, which it observes.  A step that removes an entry
\* disconnects its observer, and only such a step does.
IntersectionEntryMatchesSubscribers ==
    \A key \in AllKeys :
        /\ Count(intersectionObserving, key) <= 1
        /\ Count(intersectionObserving, key) = 1 <=> key \in DOMAIN sharedIntersectionObservers
        /\ key \in DOMAIN sharedIntersectionObservers <=> Subscribers(key) # {}
        /\ key \in DOMAIN sharedIntersectionObservers =>
               /\ sharedIntersectionObservers[key].callbacks # <<>>
               /\ {cb.inst : cb \in Range(sharedIntersectionObservers[key].callbacks)}
                      = Subscribers(key)
               /\ sharedIntersectionObservers[key].observed = Subscribers(key)

LastCallbackDisconnects ==
    \A key \in DOMAIN sharedIntersectionObservers :
        (key \notin DOMAIN sharedIntersectionObservers')
        <=> \E k \in 1..Len(log') :
                /\ log'[k].op = "IntersectionObserver.disconnect"
                /\ log'[k].str = key

IntersectionPoolRefCounting ==
    []IntersectionEntryMatchesSubscribers /\ [][LastCallbackDisconnects]_vars

\* A second instance has just subscribed under a key that already had an
\* entry, and shares its one observer.
IntersectionPoolShared ==
    \E key \in DOMAIN sharedIntersectionObservers :
        /\ Cardinality(Subscribers(key)) >= 2
        /\ Count(intersectionObserving, key) = 1
        /\ \E i \in Inst : Did("IntersectionObserver.observe", i)
        /\ ~Did("new IntersectionObserver", 0)

\* C12: detach cancels the debounce.  A detached instance has no pending
\* timer and no timer handle; a throttled action runs only for an attached
\* instance; and while an instance stays detached nothing checks it, loads
\* it or changes its qualifies attribute.
DetachedHasNoTimer ==
    \A i \in Inst : ~connected[i] => (timers[i] = <<>> /\ throttleTimeout[i] = 0)

NoActionAfterDetach ==
    \A i \in Inst :
        /\ Did("throttled action", i)' => (connected[i] /\ timers[i] # <<>>)
        /\ (~connected[i] /\ ~connected'[i]) =>
               /\ ~Did("checkAndLoad", i)'
               /\ loaded'[i] = loaded[i]
               /\ hasQualifies'[i] = hasQualifies[i]

DetachCancelsDebounce == []DetachedHasNoTimer /\ [][NoActionAfterDetach]_vars

\* An instance has just been detached with an action pending, which the
\* detach cancelled.
DetachedWhilePending ==
    \E i \in Inst : ~connected[i] /\ Did("clearTimeout", i) /\ timers[i] = <<>>

\* C13: the loaded attribute mirrors the load state.  In every state the
\* loaded attribute is present on an instance iff its loaded flag is true.
LoadedAttributeMirrorsFlag == \A i \in Inst : hasLoaded[i] <=> loaded[i]

(***************************************************************************)
(* SpecNoSrc: instances without a source.  Odd instances are created from  *)
(* <lazy-img min-inline-size="400">, even ones from                        *)
(* <lazy-img src="" query="view">; they are attached and detached, the     *)
(* parent is resized, the observers deliver, and scripts switch instance 1 *)
(* between container and view mode.                                        *)
(***************************************************************************)
NoSrcMarkup(i) ==
    IF i % 2 = 1
    THEN <<Attribute("min-inline-size", Size400)>>
    ELSE <<Attribute("src", Empty), Attribute("query", ViewStr)>>

InitNoSrc == InitWith(450, 450, [i \in Inst |-> NoSrcMarkup(i)])

NextNoSrc ==
    \/ \E i \in Inst : Attach(i, 1)
    \/ \E i \in Inst : Detach(i)
    \/ \E size \in {300, 450} : ResizeTarget(1, size)
    \/ SizeDispatch(1)
    \/ \E i \in Inst : \E k \in 1..Len(timers[i]) : TimerExpire(i, k)
    \/ \E value \in {Null, ViewStr} : SetAttribute(1, "query", value)
    \/ \E key \in DOMAIN sharedIntersectionObservers :
           \E entries \in IntersectionEntries(key) : IntersectionDispatch(key, entries)

SpecNoSrc == InitNoSrc /\ [][NextNoSrc]_vars

\* C14: the qualifies attribute is absent in view mode.  In every state an
\* instance whose cached query type is 'view' has no qualifies attribute.
QualifiesAbsentInView == \A i \in Inst : queryType[i] = ViewStr => ~hasQualifies[i]

\* The step attempted a load of instance i: its intersection callback ran,
\* or a check of it qualified.
LoadAttempted(i) ==
    \/ Did("intersectionCallback", i)'
    \/ /\ Did("checkAndLoad", i)'
       /\ queryType'[i] = ViewStr \/ hasQualifies'[i]

\* C16: missing src is silent.  After a step that attempted a load of an
\* instance whose src is absent or empty, the loaded flag is false, the
\* loaded attribute is not set, no img is rendered, and the step emitted
\* neither a loaded event nor a warning for it.
MissingSrcStep ==
    \A i \in Inst :
        (LoadAttempted(i) /\ ~Truthy(attrs'[i]["src"])) =>
            /\ ~loaded'[i]
            /\ ~hasLoaded'[i]
            /\ ~img'[i].present
            /\ ~Did("dispatchEvent lazy-img:loaded", i)'
            /\ ~Did("console.warn", i)'

MissingSrcIsSilent == [][MissingSrcStep]_vars

\* The intersection callback of an instance with an empty src has just run,
\* and an attached instance without src qualifies; neither is loaded.
LoadAttemptedWithoutSrc ==
    \E i, j \in Inst :
        /\ Did("intersectionCallback", i)
        /\ attrs[i]["src"] = Empty
        /\ attrs[j]["src"] = Null
        /\ connected[j] /\ hasQualifies[j]
        /\ ~loaded[i] /\ ~loaded[j]
        /\ ~img[i].present /\ ~img[j].present

\* C15: loaded notification.  A step emits 'lazy-img:loaded' for an instance
\* iff it takes the instance's loaded flag from false to true; it emits it
\* once, with the src the instance has at that moment.
LoadedEventStep ==
    \A i \in Inst :
        /\ Did("dispatchEvent lazy-img:loaded", i)' <=> (~loaded[i] /\ loaded'[i])
        /\ Times("dispatchEvent lazy-img:loaded", i)' <= 1
        /\ \A k \in 1..Len(log') :
               (log'[k].op = "dispatchEvent lazy-img:loaded" /\ log'[k].inst = i)
               => log'[k].str = attrs'[i]["src"]

LoadedEventOnTransition == [][LoadedEventStep]_vars

\* C17: a view-mode instance loads when it itself enters the viewport.  A
\* dispatch of intersection entries takes an instance to loaded only if one
\* of the entries is intersecting and has that instance as its target.
OwnEntryLoadsStep ==
    \A key \in DOMAIN sharedIntersectionObservers :
        \A entries \in IntersectionEntries(key) :
            IntersectionDispatch(key, entries) =>
                \A i \in Inst :
                    (~loaded[i] /\ loaded'[i]) =>
                        \E k \in 1..Len(entries) :
                            entries[k].target = i /\ entries[k].isIntersecting

LoadsOnOwnIntersection == [][OwnEntryLoadsStep]_vars

(***************************************************************************)
(* SpecDefine: registration.  The page is with or without a custom-element *)
(* registry, in which other elements may already be defined; define.js is  *)
(* imported, which calls defineLazyImg() once (line 18); then scripts call *)
(* defineLazyImg with any tag name and define other elements.              *)
(***************************************************************************)
InitDefine ==
    \E has \in BOOLEAN, before \in [TagNames -> {NotDefined, OtherElement}] :
        /\ has \/ before = [t \in TagNames |-> NotDefined]
        /\ Install(defineLazyImg([Constructed(300, 300) EXCEPT !.hasRegistry = has,
                                                               !.customElements = before],
                                 "lazy-img"))

NextDefine ==
    \/ \E tagName \in TagNames : DefineLazyImg(tagName)
    \/ \E tagName \in TagNames : DefineOther(tagName)

SpecDefine == InitDefine /\ [][NextDefine]_vars

\* The step is a call defineLazyImg(tagName).
Called(tagName) ==
    \E k \in 1..Len(log') : log'[k].op = "defineLazyImg" /\ log'[k].str = <<tagName>>
Returned(value) ==
    \E k \in 1..Len(log') : log'[k].op = "return" /\ log'[k].str = <<value>>

\* C18: registration is idempotent.  A call defineLazyImg(tagName) calls
\* define only for a tag name that is not registered, and at most once;
\* it returns true when the page has a registry; without one it returns
\* false and changes nothing.
DefineStep ==
    \A tagName \in TagNames :
        Called(tagName) =>
            /\ Did("registry.define", 0)' =>
                   (hasRegistry /\ customElements[tagName] = NotDefined)
            /\ Times("registry.define", 0)' <= 1
            /\ hasRegistry => Returned("true")
            /\ ~hasRegistry =>
                   /\ Returned("false")
                   /\ ~Did("registry.define", 0)'
                   /\ customElements' = customElements

RegistrationIdempotent == [][DefineStep]_vars

\* The step attaches instance i, which was loaded.
Reattached(i) == ~connected[i] /\ connected'[i] /\ loaded[i]

AltPlain == <<"x">>
AltAmpersand == <<"a", "&", "b">>
WidthStr == <<"1", "0">>

InitPassThrough ==
    InitWith(300, 300, [i \in Inst |-> IF i = 1 THEN <<Attribute("src", SrcA)>> ELSE <<>>])

NextPassThrough ==
    \/ Attach(1, 1)
    \/ Detach(1)
    \/ \E value \in {Null, AltPlain, AltAmpersand} : SetAttribute(1, "alt", value)
    \/ \E value \in {Null, LazyStr} : SetAttribute(1, "loading", value)
    \/ \E value \in {Null, WidthStr} : SetAttribute(1, "width", value)

SpecPassThrough == InitPassThrough /\ [][NextPassThrough]_vars

\* C20: pass-through attributes of a loaded instance.  Setting alt, width,
\* height, loading, decoding, fetchpriority, crossorigin or referrerpolicy
\* of a loaded instance to a new value leaves the rendered img with that
\* value for the attribute, and the loaded flag as it was.
PassThroughStep ==
    \A i \in Inst : \A name \in Range(IMG_ATTRIBUTES) \ Range(SOURCE_ATTRIBUTES) :
        (loaded[i] /\ Mutated(i, {name}) /\ attrs'[i][name] # Null) =>
            /\ ImgAttr(img'[i], name) = attrs'[i][name]
            /\ loaded'[i]

PassThroughRerenders == [][PassThroughStep]_vars

(***************************************************************************)
(* SpecPools: the three pools together.  Each instance is created in one   *)
(* of the three modes; instances are attached and detached,                *)
(* disconnectedCallback runs a second time, and the unsubscribe functions  *)
(* of the pools are called for callbacks that are not subscribed.          *)
(***************************************************************************)
ModeMarkup(i, mode) ==
    SizeMarkup(i) \o (IF mode = ContainerStr THEN <<>> ELSE <<Attribute("query", mode)>>)

InitPools ==
    \E modes \in [Inst -> {ContainerStr, MediaStr, ViewStr}] :
        InitWith(300, 300, [i \in Inst |-> ModeMarkup(i, modes[i])])

NextPools ==
    \/ \E i \in Inst, p \in Parents : Attach(i, p)
    \/ \E i \in Inst : DisconnectedCallback(i)
    \/ \E i \in Inst, t \in Parents : UnsubscribeSize(t, i)
    \/ \E i \in Inst : UnsubscribeWindow(i)
    \/ \E i \in Inst : UnsubscribeIntersection(Null, i)

SpecPools == InitPools /\ [][NextPools]_vars

\* Everything but the log of the last step.
Pools ==
    <<sharedObservers, windowResizeCallbacks, windowResizeListenerAttached,
      sharedIntersectionObservers, resizeObserving, roPending, windowListener,
      intersectionObserving>>
Fields ==
    <<attrs, hasLoaded, hasQualifies, loaded, throttleTimeout,
      timers, namedBreakpoints, minInlineSize, queryType, parsedBreakpoints,
      currentSize, intersectionConfig, intersectionCallback, observedTarget,
      resizeCallback, handleResize, styleInjected, img>>
Instances == <<connected, parent, Fields>>

\* Instance i holds no subscription and no timer handle.
NothingToRemove(i) ==
    /\ intersectionCallback[i] = NoViewCallback
    /\ observedTarget[i] = NoTarget
    /\ resizeCallback[i] = NoCallback
    /\ handleResize[i] = NoCallback
    /\ throttleTimeout[i] = 0

\* C21: unsubscribe and detach are idempotent.  Unsubscribing, from any of
\* the three pools, a callback that is not subscribed there changes no pool
\* and no instance; disconnectedCallback leaves the instance with nothing to
\* remove, and for an instance that is not attached (never attached, or
\* detached before) it changes no pool and no instance.
IdempotentStep ==
    \A i \in Inst :
        /\ \A t \in Parents : UnsubscribeSize(t, i) => UNCHANGED <<Pools, Instances>>
        /\ UnsubscribeWindow(i) => UNCHANGED <<Pools, Instances>>
        /\ UnsubscribeIntersection(Null, i) => UNCHANGED <<Pools, Instances>>
        /\ DisconnectedCallback(i) => NothingToRemove(i)'
        /\ (DisconnectedCallback(i) /\ ~connected[i]) => UNCHANGED <<Pools, Instances>>

UnsubscribeIdempotent == [][IdempotentStep]_vars

\* The callback of an instance that is not in view mode, and so never
\* subscribed to the intersection pool, has just been unsubscribed from an
\* entry of that pool which other instances use.
UnsubscribedNeverSubscribed ==
    \E i, j \in Inst :
        /\ Did("IntersectionObserver.unobserve", i)
        /\ attrs[i]["query"] # ViewStr
        /\ intersectionCallback[j] # NoViewCallback
        /\ KeyOf(j) \in DOMAIN sharedIntersectionObservers
        /\ intersectionCallback[j] \in Range(sharedIntersectionObservers[KeyOf(j)].callbacks)

(***************************************************************************)
(* SpecUnconditional: no condition.  Instance 1 is created from            *)
(* <lazy-img [src="a"] [query="media"]>, with neither min-inline-size nor  *)
(* named-breakpoints; it is attached and detached, its parent and the      *)
(* window are resized, timers expire, and scripts set and remove its src.  *)
(***************************************************************************)
UnconditionalMarkup(src, mode) ==
    (IF src = Null THEN <<>> ELSE <<Attribute("src", src)>>)
    \o (IF mode = ContainerStr THEN <<>> ELSE <<Attribute("query", mode)>>)

InitUnconditional ==
    \E src \in {Null, SrcA}, mode \in {ContainerStr, MediaStr} :
        InitWith(0, 0, [i \in Inst |-> IF i = 1 THEN UnconditionalMarkup(src, mode) ELSE <<>>])

NextUnconditional ==
    \/ \E p \in Parents : Attach(1, p)
    \/ Detach(1)
    \/ \E size \in {0, 450} : ResizeTarget(1, size)
    \/ SizeDispatch(1)
    \/ \E width \in {0, 450} : WindowResize(width)
    \/ \E k \in 1..Len(timers[1]) : TimerExpire(1, k)
    \/ \E value \in {Null, SrcA} : SetAttribute(1, "src", value)

SpecUnconditional == InitUnconditional /\ [][NextUnconditional]_vars

\* Instance i is in container or media mode and has neither condition.
NoCondition(i) ==
    /\ queryType[i] # ViewStr
    /\ attrs[i]["min-inline-size"] = Null
    /\ attrs[i]["named-breakpoints"] = Null

\* C22: no condition means immediate load.  For an instance in container or
\* media mode with neither min-inline-size nor named-breakpoints, every check
\* qualifies, and an attach with a src present ends with the instance loaded:
\* loaded flag, loaded attribute and an img with that src.
ImmediateLoadStep ==
    \A i \in Inst :
        NoCondition(i)' =>
            /\ Did("checkAndLoad", i)' => hasQualifies'[i]
            /\ (~connected[i] /\ connected'[i] /\ Truthy(attrs'[i]["src"])) =>
                   /\ Did("checkAndLoad", i)'
                   /\ loaded'[i] /\ hasLoaded'[i]
                   /\ ImgAttr(img'[i], "src") = attrs'[i]["src"]

ImmediateLoad == [][ImmediateLoadStep]_vars

\* A media-mode instance without a condition was loaded by its attach, at
\* width 0.
LoadedByAttach ==
    /\ NoCondition(1) /\ queryType[1] = MediaStr
    /\ connected[1] /\ innerWidth = 0
    /\ Did("checkAndLoad", 1) /\ Did("dispatchEvent lazy-img:loaded", 1)
    /\ loaded[1] /\ hasLoaded[1] /\ img[1].present

(***************************************************************************)
(* SpecInvalid: invalid configuration.  Instance 1 is created from         *)
(* <lazy-img src="a" min-inline-size=... [named-breakpoints="m"] [query=   *)
(* "media"]> with a threshold that is a number or not; it is attached and  *)
(* detached, its parent and the window are resized, timers expire, the     *)
(* page sets --lazy-img-mq and scripts set min-inline-size.                *)
(***************************************************************************)
InitInvalid ==
    \E t \in {NotANumber, Size400},
       names \in {NoList, << <<"m">> >>},
       mode \in {ContainerStr, MediaStr} :
        InitWith(300, 300, [i \in Inst |-> IF i = 1 THEN ResolverMarkup(t, names, mode) ELSE <<>>])

NextInvalid ==
    \/ Attach(1, 1)
    \/ Detach(1)
    \/ ResizeTarget(1, 450)
    \/ SizeDispatch(1)
    \/ WindowResize(450)
    \/ \E k \in 1..Len(timers[1]) : TimerExpire(1, k)
    \/ \E value \in {<<>>, <<" ", "m">>} : SetActiveMQ(value)
    \/ \E value \in {NotANumber, Size400} : SetAttribute(1, "min-inline-size", value)

SpecInvalid == InitInvalid /\ [][NextInvalid]_vars

\* The instance is subscribed to the pool of its mode.
Subscribed(i) ==
    IF queryType[i] = MediaStr
    THEN i \in Range(windowResizeCallbacks)
    ELSE /\ TargetOf(i) \in DOMAIN sharedObservers
         /\ i \in Range(sharedObservers[TargetOf(i)].callbacks)

Warned(i) == Did("console.warn", i)
NonNumeric(i) == Truthy(attrs[i]["min-inline-size"]) /\ ParseInt(attrs[i]["min-inline-size"]).nan
NoSignal(i) == Truthy(attrs[i]["named-breakpoints"]) /\ ~Truthy(Trim(activeMQ))

\* C23 as claimed: a non-numeric min-inline-size, or named-breakpoints without
\* an active-breakpoint signal, makes every check of a container- or
\* media-mode instance not-qualifying with a warning, and the instance is not
\* loaded by a step that leaves its configuration invalid.
InvalidAsClaimedStep ==
    \A i \in Inst :
        (queryType'[i] # ViewStr /\ (NonNumeric(i)' \/ NoSignal(i)')) =>
            /\ Did("checkAndLoad", i)' => (~hasQualifies'[i] /\ Warned(i)')
            /\ ~loaded[i] => ~loaded'[i]

InvalidNeverQualifies == [][InvalidAsClaimedStep]_vars

\* The configuration that governs the check is invalid: named-breakpoints,
\* when set, without a signal; otherwise a min-inline-size that is no number.
Invalid(i) ==
    IF Truthy(attrs[i]["named-breakpoints"]) THEN NoSignal(i) ELSE NonNumeric(i)

\* The governing condition is valid and met.
Satisfied(i) ==
    IF Truthy(attrs[i]["named-breakpoints"])
    THEN /\ Truthy(Trim(activeMQ))
         /\ Includes(ParseBreakpoints(attrs[i]["named-breakpoints"]), Trim(activeMQ))
    ELSE IF Truthy(attrs[i]["min-inline-size"])
    THEN /\ ~ParseInt(attrs[i]["min-inline-size"]).nan
         /\ (IF currentSize[i] = Undefined THEN 0 ELSE currentSize[i])
                >= ParseInt(attrs[i]["min-inline-size"]).val
    ELSE TRUE

\* C23: invalid configuration degrades.  While the governing condition of a
\* container- or media-mode instance is invalid, every check is
\* not-qualifying with a warning and no step loads the instance; an attached
\* instance stays subscribed through such a check; and a check made when the
\* condition is valid and met qualifies and, with a src, leaves the instance
\* loaded.
InvalidDegradesStep ==
    \A i \in Inst :
        queryType'[i] # ViewStr =>
            /\ Invalid(i)' =>
                   /\ Did("checkAndLoad", i)' => (~hasQualifies'[i] /\ Warned(i)')
                   /\ ~loaded[i] => ~loaded'[i]
                   /\ (Did("checkAndLoad", i)' /\ connected'[i]) => Subscribed(i)'
            /\ (Did("checkAndLoad", i)' /\ Satisfied(i)') =>
                   /\ hasQualifies'[i] /\ ~Warned(i)'
                   /\ Truthy(attrs'[i]["src"]) => loaded'[i]

InvalidDegrades == [][InvalidDegradesStep]_vars

\* An attached instance whose threshold is not a number has just been
\* checked: a warning, no load, still subscribed.
WarnedAndWaiting ==
    /\ connected[1] /\ NonNumeric(1) /\ Invalid(1)
    /\ Did("checkAndLoad", 1) /\ Warned(1)
    /\ ~loaded[1] /\ ~hasQualifies[1] /\ Subscribed(1)
    /\ targetSize[1] = 450

\* C24: the img is present only if the loaded flag is true, or the instance
\* is not in view mode and has neither min-inline-size nor named-breakpoints.
ImgOnlyWhenLoadedOrUnconditional ==
    \A i \in Inst : img[i].present => (loaded[i] \/ NoCondition(i))

\* C25: view mode bypasses the resolver.  A step that takes an instance whose
\* mode is view from not loaded to loaded is an intersection dispatch that
\* runs the instance's intersection callback: no attribute mutation and no
\* qualification check loads it.
ViewLoadsByIntersectionStep ==
    \A i \in Inst :
        (queryType'[i] = ViewStr /\ ~loaded[i] /\ loaded'[i]) =>
            /\ Did("intersectionCallback", i)'
            /\ ~Did("attributeChangedCallback", i)'
            /\ ~Did("checkAndLoad", i)'

ViewLoadsOnlyByIntersection == [][ViewLoadsByIntersectionStep]_vars

(***************************************************************************)
(* SpecConfig: mutation of the configuration.  Instance 1 is created from  *)
(* <lazy-img src="a" min-inline-size="400" query="media"> or from          *)
(* <lazy-img query="view" min-inline-size="400" src="a">; it is attached   *)
(* and detached, the window is resized, its observer reports, and scripts  *)
(* set min-inline-size, named-breakpoints and view-range-start.            *)
(***************************************************************************)
ConfigMarkup(mode) ==
    IF mode = ViewStr
    THEN <<Attribute("query", ViewStr), Attribute("min-inline-size", Size400),
           Attribute("src", SrcA)>>
    ELSE MediaMarkup(1)

InitConfig ==
    \E mode \in {MediaStr, ViewStr} :
        InitWith(450, 450, [i \in Inst |-> IF i = 1 THEN ConfigMarkup(mode) ELSE <<>>])

NextConfig ==
    \/ Attach(1, 1)
    \/ Detach(1)
    \/ \E width \in {300, 450} : WindowResize(width)
    \/ \E k \in 1..Len(timers[1]) : TimerExpire(1, k)
    \/ \E key \in DOMAIN sharedIntersectionObservers :
           \E entries \in IntersectionEntries(key) : IntersectionDispatch(key, entries)
    \/ \E value \in {Size400, Size500} : SetAttribute(1, "min-inline-size", value)
    \/ \E value \in {Null, <<"m">>} : SetAttribute(1, "named-breakpoints", value)
    \/ \E value \in {Null, Entry25} : SetAttribute(1, "view-range-start", value)

SpecConfig == InitConfig /\ [][NextConfig]_vars

\* The step changes the threshold, the breakpoint list or the view range of
\* instance i to a different value.
ConfigChanged(i) ==
    \E name \in {"min-inline-size", "named-breakpoints", "view-range-start"} :
        attrs'[i][name] # attrs[i][name]

LoadedAnew(i) == Did("checkAndLoad", i)' /\ Did("dispatchEvent lazy-img:loaded", i)'

\* C26 as claimed: a change of min-inline-size, named-breakpoints or
\* view-range-start to a different value resets loaded and runs a fresh
\* check, whether the instance was loaded or not: the step runs the check,
\* and the instance is loaded after it only if that check loaded it anew.
ConfigChangeResetsStep ==
    \A i \in Inst :
        ConfigChanged(i) =>
            /\ Did("checkAndLoad", i)'
            /\ loaded'[i] => LoadedAnew(i)

ConfigChangeResets == [][ConfigChangeResetsStep]_vars

\* C26: a change of min-inline-size, named-breakpoints or view-range-start to
\* a different value runs a fresh check against the new configuration only
\* for an instance that is not loaded (in view mode the check counts as met);
\* for a loaded instance the change is ignored: no check, no event, and the
\* loaded flag, the qualifies attribute and the img stay as they were.
ConfigChangeStep ==
    \A i \in Inst :
        ConfigChanged(i) =>
            IF loaded[i]
            THEN /\ loaded'[i] /\ hasLoaded'[i] = hasLoaded[i]
                 /\ ~Did("checkAndLoad", i)'
                 /\ ~Did("dispatchEvent lazy-img:loaded", i)'
                 /\ hasQualifies'[i] = hasQualifies[i]
                 /\ img'[i] = img[i]
            ELSE /\ Did("checkAndLoad", i)'
                 /\ queryType'[i] # ViewStr => (hasQualifies'[i] <=> Satisfied(i)')
                 /\ loaded'[i] <=> /\ Truthy(attrs'[i]["src"])
                                   /\ queryType'[i] = ViewStr \/ Satisfied(i)'

ConfigChangeChecksUnlessLoaded == [][ConfigChangeStep]_vars

\* The threshold of a loaded instance has just been raised above the width
\* of the window: the instance is still loaded, and no check was run.
LoadedKeptAfterConfigChange ==
    /\ \E k \in 1..Len(log) :
           log[k].op = "attributeChangedCallback" /\ log[k].str = <<"min-inline-size">>
    /\ attrs[1]["min-inline-size"] = Size500 /\ queryType[1] = MediaStr
    /\ connected[1] /\ currentSize[1] = 450
    /\ loaded[1] /\ img[1].present
    /\ ~Did("checkAndLoad", 1)

\* Instance i is attached in container mode with a src and a numeric
\* threshold that the size of the target it observes already meets.
AttachedSatisfied(i) ==
    /\ connected[i] /\ queryType[i] = ContainerStr
    /\ Truthy(attrs[i]["src"])
    /\ attrs[i]["named-breakpoints"] = Null
    /\ Truthy(attrs[i]["min-inline-size"])
    /\ ~ParseInt(attrs[i]["min-inline-size"]).nan
    /\ targetSize[TargetOf(i)] >= ParseInt(attrs[i]["min-inline-size"]).val

\* C27: attach handles an already-satisfied condition.  An instance attached
\* in container mode whose target already meets its threshold becomes loaded
\* without a later change of the size: in every state it is loaded, or a
\* size notification for its target or a timer of its own is pending, whose
\* check will load it; that holds as well for an instance that joined the
\* pool entry of a target that others observed before.
SatisfiedAtAttachLoads ==
    \A i \in Inst :
        AttachedSatisfied(i) =>
            \/ loaded[i]
            \/ roPending[TargetOf(i)]
            \/ timers[i] # <<>>

\* What instance i is subscribed with, and where.
Handles(i) ==
    <<observedTarget[i], resizeCallback[i], handleResize[i],
      intersectionCallback[i], intersectionConfig[i]>>

\* The pools, with their observers and listener.
Membership ==
    <<sharedObservers, windowResizeCallbacks, windowResizeListenerAttached,
      sharedIntersectionObservers, resizeObserving, windowListener,
      intersectionObserving>>

\* C28: mode is wired once at attach.  A change of the query attribute leaves
\* every pool, every observer and the subscriptions of the instance as they
\* were; the pools and subscriptions change only in a step that attaches or
\* detaches an instance or runs the intersection callback of a view-mode
\* instance, which removes itself.
WiredOnceStep ==
    /\ \A i \in Inst :
           Mutated(i, {"query"}) => UNCHANGED <<Pools, Handles(i)>>
    /\ ~(UNCHANGED <<Membership, [i \in Inst |-> Handles(i)]>>) =>
           \E i \in Inst :
               \/ connected'[i] # connected[i]
               \/ Did("intersectionCallback", i)'

ModeWiredAtAttach == [][WiredOnceStep]_vars

\* The query of an instance attached in container mode has just been set to
\* view: the instance is still subscribed to the size pool of its parent and
\* not to the intersection pool.
ModeChangedWhileAttached ==
    /\ connected[1] /\ queryType[1] = ViewStr
    /\ Did("attributeChangedCallback", 1)
    /\ TargetOf(1) \in DOMAIN sharedObservers
    /\ 1 \in Range(sharedObservers[TargetOf(1)].callbacks)
    /\ intersectionCallback[1] = NoViewCallback

(***************************************************************************)
(* SpecFanOut: dispatch of the size pool and of the window pool.  Each     *)
(* instance is created in container or in media mode; instances are        *)
(* attached under the same parent and detached, the parent and the window  *)
(* are resized, the observer reports and timers expire.                    *)
(***************************************************************************)
InitFanOut ==
    \E modes \in [Inst -> {ContainerStr, MediaStr}] :
        InitWith(300, 300, [i \in Inst |-> ModeMarkup(i, modes[i])])

NextFanOut ==
    \/ \E i \in Inst : Attach(i, 1)
    \/ \E i \in Inst : Detach(i)
    \/ \E size \in {300, 450} : ResizeTarget(1, size)
    \/ SizeDispatch(1)
    \/ \E width \in {300, 450} : WindowResize(width)
    \/ \E i \in Inst : \E k \in 1..Len(timers[i]) : TimerExpire(i, k)

SpecFanOut == InitFanOut /\ [][NextFanOut]_vars

\* The instances whose callback the step invoked, in the order of the calls.
IsOp(op, e) == e.op = op
Invoked(op) ==
    LET calls == SelectSeq(log', LAMBDA e : IsOp(op, e))
    IN  [k \in 1..Len(calls) |-> calls[k].inst]

\* The step did nothing but call callbacks op, which replace pending timers.
OnlyCalls(op) == \A k \in 1..Len(log') : log'[k].op \in {op, "clearTimeout"}

\* C29: fan-out of one dispatch.  A dispatch of a size-pool entry, and a
\* resize event of the window, invokes every callback subscribed at its start
\* exactly once, in the order of registration, within the one step, in which
\* no timer action, no check and no attribute callback runs.
FanOutStep ==
    /\ \A t \in Targets :
           SizeDispatch(t) =>
               /\ Invoked("resizeCallback") = sharedObservers[t].callbacks
               /\ OnlyCalls("resizeCallback")
    /\ \A width \in {300, 450} :
           WindowResize(width) =>
               /\ Invoked("handleResize") = windowResizeCallbacks
               /\ OnlyCalls("handleResize")

FanOutInOrder == [][FanOutStep]_vars

\* A dispatch has just called the callbacks of both instances, the second
\* instance first: it subscribed first.
FanOutSecondFirst ==
    \E j, k \in 1..Len(log) :
        /\ j < k
        /\ log[j].op = "resizeCallback" /\ log[j].inst = 2
        /\ log[k].op = "resizeCallback" /\ log[k].inst = 1

\* C30: non-intersecting entries are ignored.  An intersection dispatch in
\* which no entry is intersecting invokes no callback (nothing is called or
\* emitted in the step), loads no instance and leaves the pool entries, the
\* observers and every subscription unchanged.
NonIntersectingStep ==
    \A key \in DOMAIN sharedIntersectionObservers :
        \A entries \in IntersectionEntries(key) :
            (/\ IntersectionDispatch(key, entries)
             /\ \A k \in 1..Len(entries) : ~entries[k].isIntersecting) =>
                /\ log' = <<>>
                /\ UNCHANGED <<Pools, Instances>>

NonIntersectingIgnored == [][NonIntersectingStep]_vars

\* A view-mode instance is attached, observed and not loaded, and the last
\* step called nothing: a dispatch without an intersecting entry.
ObservedAndWaiting ==
    /\ log = <<>>
    /\ \E i \in Inst :
           /\ connected[i] /\ queryType[i] = ViewStr /\ ~loaded[i]
           /\ intersectionCallback[i] # NoViewCallback
           /\ KeyOf(i) \in DOMAIN sharedIntersectionObservers
           /\ i \in sharedIntersectionObservers[KeyOf(i)].observed
           /\ intersectionCallback[i] \in Range(sharedIntersectionObservers[KeyOf(i)].callbacks)

\* C31: the qualifies attribute follows the resolver.  After every check of
\* an instance in container or media mode, loaded or not, the qualifies
\* attribute is present iff the condition that governs the instance is met by
\* its configuration, the size it last saw and the active breakpoint: once
\* loaded, the attribute goes when the size drops below the threshold and
\* comes back when the size reaches it again.
QualifiesFollowsStep ==
    \A i \in Inst :
        (queryType'[i] # ViewStr /\ Did("checkAndLoad", i)') =>
            (hasQualifies'[i] <=> Satisfied(i)')

QualifiesFollowsResolver == [][QualifiesFollowsStep]_vars

\* A loaded instance with a numeric threshold has just been checked at a
\* size below it: the qualifies attribute is gone, the load is kept.
QualifiesRemovedAfterLoad ==
    /\ connected[1] /\ loaded[1] /\ hasLoaded[1] /\ img[1].present
    /\ attrs[1]["named-breakpoints"] = Null
    /\ ~ParseInt(attrs[1]["min-inline-size"]).nan
    /\ currentSize[1] # Undefined
    /\ currentSize[1] < ParseInt(attrs[1]["min-inline-size"]).val
    /\ Did("checkAndLoad", 1)
    /\ ~hasQualifies[1]

(***************************************************************************)
(* SpecViewRange: parseViewRange over a bounded set of view-range-start    *)
(* values.  Instance 1 is created from                                     *)
(* <lazy-img query="view" view-range-start=V> (no view-range-start at all  *)
(* when V is absent); attaching it parses V, detaching it forgets the      *)
(* result.                                                                 *)
(***************************************************************************)
BelowRange == 3
MaxPercent == 103
MaxMargin == 4

\* "entry n%" and "entry -npx" as a script writes them for an integer n.
PercentStr(n) == EntryWord \o <<" ">> \o IntToStr(n) \o <<"%">>
MarginStr(n) == EntryWord \o <<" ", "-">> \o NatToStr(n) \o <<"p", "x">>

OtherViewRanges ==
    {<<" ">>,
     <<"2", "5", "%">>,
     EntryWord \o <<" ", "2", "5">>,
     EntryWord \o <<"2", "5", "%">>,
     EntryWord \o <<" ", "2", "0", "0", "p", "x">>,
     EntryWord \o <<" ", "-", "2", "p", "x", "%">>,
     <<"e", "x", "i", "t", " ", "2", "5", "%">>,
     <<"E", "N", "T", "R", "Y", " ", "2", "5", "%">>,
     EntryWord \o <<" ", "1", "2", ".", "5", "%">>,
     EntryWord \o <<" ", "1", "0", "0", ".", "5", "%">>,
     EntryWord \o <<" ", " ", "2", "5", "%">>,
     <<" ">> \o EntryWord \o <<" ", "2", "5", "%", " ">>,
     <<" ">> \o EntryWord \o <<"\t", "-", "2", "p", "x">>}

ViewRangeInputs ==
    {Null, Empty}
    \cup {PercentStr(n) : n \in (0 - BelowRange)..MaxPercent}
    \cup {MarginStr(n) : n \in 0..MaxMargin}
    \cup OtherViewRanges

ViewRangeMarkup(rangeValue) ==
    <<Attribute("query", ViewStr)>>
    \o (IF rangeValue = Null THEN <<>> ELSE <<Attribute("view-range-start", rangeValue)>>)

InitViewRange ==
    \E rangeValue \in ViewRangeInputs :
        InitWith(300, 300, [i \in Inst |-> IF i = 1 THEN ViewRangeMarkup(rangeValue) ELSE <<>>])

NextViewRange ==
    \/ \E p \in Parents : Attach(1, p)
    \/ Detach(1)

SpecViewRange == InitViewRange /\ [][NextViewRange]_vars

\* The step parsed the view-range-start of instance 1 and subscribed it.
Parsed == Did("IntersectionObserver.observe", 1)
ParseWarned == Did("console.warn", 1)
RangeValue == attrs[1]["view-range-start"]

\* Zero margin with threshold n / 100; a preload margin of n pixels with
\* threshold 0.
ThresholdOf(n) ==
    [rootMargin |-> ZeroPx, threshold |-> Normalise([neg |-> FALSE, n |-> n, scale |-> 2])]
MarginOf(n) ==
    [rootMargin |-> <<"0", "p", "x", " ", "0", "p", "x", " ">> \o NatToStr(n)
                        \o <<"p", "x", " ", "0", "p", "x">>,
     threshold |-> Zero]
DefaultRange == [rootMargin |-> ZeroPx, threshold |-> Zero]

IsPercentStr == \E n \in (0 - BelowRange)..MaxPercent : RangeValue = PercentStr(n)
IsMarginStr == \E n \in 0..MaxMargin : RangeValue = MarginStr(n)

\* The clauses about the integer forms and the absent or empty value.
IntegerForms ==
    /\ \A n \in (0 - BelowRange)..MaxPercent :
           RangeValue = PercentStr(n) =>
               IF 0 <= n /\ n <= 100
               THEN intersectionConfig[1] = ThresholdOf(n) /\ ~ParseWarned
               ELSE intersectionConfig[1] = DefaultRange /\ ParseWarned
    /\ \A n \in 0..MaxMargin :
           RangeValue = MarginStr(n) =>
               intersectionConfig[1] = MarginOf(n) /\ ~ParseWarned
    /\ ~Truthy(RangeValue) => intersectionConfig[1] = DefaultRange /\ ~ParseWarned

EntryForm == AfterEntry(Trim(RangeValue)) # Null

InitLifecycle ==
    \E mode \in {ContainerStr, MediaStr, ViewStr} :
        InitWith(450, 450, [i \in Inst |-> IF i = 1 THEN SizeMarkup(1) ELSE ModeMarkup(1, mode)])

NextLifecycle ==
    \/ \E i \in Inst : Attach(i, 1)
    \/ \E i \in Inst : Detach(i)
    \/ \E value \in {Null, MediaStr, ViewStr} : SetAttribute(1, "query", value)
    \/ \E value \in {Null, Entry25} : SetAttribute(1, "view-range-start", value)
    \/ SizeDispatch(1)
    \/ \E width \in {300, 450} : WindowResize(width)
    \/ \E i \in Inst : \E k \in 1..Len(timers[i]) : TimerExpire(i, k)
    \/ \E key \in DOMAIN sharedIntersectionObservers :
           \E entries \in IntersectionEntries(key) : IntersectionDispatch(key, entries)

SpecLifecycle == InitLifecycle /\ [][NextLifecycle]_vars

\* The callbacks held for a size-pool target and for an intersection-pool key.
SizeCallbacks(t) ==
    IF t \in DOMAIN sharedObservers THEN sharedObservers[t].callbacks ELSE <<>>
ViewCallbacks(key) ==
    IF key \in DOMAIN sharedIntersectionObservers
    THEN sharedIntersectionObservers[key].callbacks
    ELSE <<>>

\* Every callback held in a pool is the one its instance joined with, and
\* that instance is attached.
NoOrphans ==
    /\ \A t \in Targets : \A i \in Range(SizeCallbacks(t)) :
           connected[i] /\ observedTarget[i] = t /\ resizeCallback[i] = i
    /\ \A i \in Range(windowResizeCallbacks) : connected[i] /\ handleResize[i] = i
    /\ \A key \in DOMAIN sharedIntersectionObservers :
           \A cb \in Range(ViewCallbacks(key)) :
               /\ connected[cb.inst]
               /\ intersectionCallback[cb.inst] = cb
               /\ KeyOf(cb.inst) = key

\* A detach of instance i takes the callbacks of i, and nothing else, out of
\* the pools.
DetachRemovesOwn ==
    \A i \in Inst :
        (connected[i] /\ ~connected'[i]) =>
            /\ \A t \in Targets :
                   SizeCallbacks(t)' = SelectSeq(SizeCallbacks(t), LAMBDA j : j # i)
            /\ windowResizeCallbacks' = SelectSeq(windowResizeCallbacks, LAMBDA j : j # i)
            /\ \A key \in AllKeys :
                   ViewCallbacks(key)' = SelectSeq(ViewCallbacks(key), LAMBDA cb : cb.inst # i)

\* C33: no orphan subscriptions.  After any sequence of attach, detach,
\* attribute mutation (query and view-range-start changes between attach and
\* detach included), dispatch and timer events in which attach and detach
\* alternate per instance, every callback held in any of the three pools
\* belongs to a currently attached instance, and a detach removes the
\* instance's callback from exactly the pool and key it joined at attach.
NoOrphanSubscriptions == []NoOrphans /\ [][DetachRemovesOwn]_vars

\* Instance 1 joined the size pool, its query and view-range-start were
\* changed while it was attached, and it has just been detached: the size
\* pool is empty while instance 2 keeps its intersection subscription.
DetachedAfterModeChange ==
    /\ ~connected[1] /\ queryType[1] = ViewStr
    /\ attrs[1]["view-range-start"] = Entry25
    /\ \E k \in 1..Len(log) : log[k].op = "ResizeObserver.disconnect" /\ log[k].num = 1
    /\ connected[2] /\ intersectionCallback[2] \in Range(ViewCallbacks(KeyOf(2)))

\* C34: lifecycle order.  The loaded flag of an instance becomes true only
\* while the instance is attached: an instance that has never been attached,
\* or is currently detached, is never moved to loaded by an attribute
\* mutation.
LoadedOnlyWhileAttached ==
    [][\A i \in Inst : (~loaded[i] /\ loaded'[i]) => connected'[i]]_vars

(***************************************************************************)
(* SpecThrottle: fair timers.  Instance 1 is created from                  *)
(* <lazy-img src="a" min-inline-size="400"> or the same with               *)
(* query="media"; it is attached and detached, its parent and the window   *)
(* are resized, the observer reports.  setTimeout runs the callback of a   *)
(* timer that is not cleared once its delay has passed                     *)
(* (src/lazy-img.js:479-487), so the expiry of the pending timer is weakly *)
(* fair.                                                                   *)
(***************************************************************************)
InitThrottle ==
    \E mode \in {ContainerStr, MediaStr} :
        InitWith(300, 300, [i \in Inst |-> IF i = 1 THEN ModeMarkup(1, mode) ELSE <<>>])

Expire(i) == \E k \in 1..Len(timers[i]) : TimerExpire(i, k)

NextThrottle ==
    \/ Attach(1, 1)
    \/ Detach(1)
    \/ \E size \in {300, 450} : ResizeTarget(1, size)
    \/ SizeDispatch(1)
    \/ \E width \in {300, 450} : WindowResize(width)
    \/ Expire(1)

\* The pending timer of instance 1 fires: the step consumes the timer and its
\* handle while the instance stays attached.  Among the steps of NextThrottle
\* these are exactly the Expire(1) steps (a detach changes connected, a
\* trigger leaves a timer), and such a step is possible iff a timer is
\* pending.
TimerFires ==
    /\ timers[1] # <<>>
    /\ timers' = [timers EXCEPT ![1] = <<>>]
    /\ throttleTimeout' = [throttleTimeout EXCEPT ![1] = 0]
    /\ connected' = connected

SpecThrottle ==
    /\ InitThrottle
    /\ [][NextThrottle]_vars
    /\ WF_<<timers, throttleTimeout, connected>>(TimerFires)

\* The step is a trigger of instance i's throttle or a detach of i.
TriggerOrDetach(i) ==
    \/ Did("resizeCallback", i)'
    \/ Did("handleResize", i)'
    \/ connected[i] /\ ~connected'[i]

\* Short of a trigger or a detach, a pending action stays pending until it
\* runs, once, leaving no timer and no handle.
PendingKeptUntilRun ==
    \A i \in Inst :
        (timers[i] # <<>> /\ ~TriggerOrDetach(i)) =>
            \/ timers'[i] = timers[i] /\ throttleTimeout'[i] = throttleTimeout[i]
                  /\ ~Did("throttled action", i)'
            \/ Times("throttled action", i)' = 1 /\ timers'[i] = <<>>
                  /\ throttleTimeout'[i] = 0

\* C35: pending throttle actions are not lost.  If an instance has a pending
\* throttle action and no further trigger and no detach of it occurs, then
\* under fair timer expiry the action eventually executes, exactly once, and
\* afterwards the instance has no pending timer.
PendingActionRuns ==
    /\ [][PendingKeptUntilRun /\ (TimerFires <=> <<Expire(1)>>_vars)]_vars
    /\ <>[][~TriggerOrDetach(1)]_vars =>
           <>[](timers[1] = <<>> /\ throttleTimeout[1] = 0)

\* The pending action of instance 1 has just run and has loaded it.
RanAndLoaded ==
    /\ Did("throttled action", 1) /\ timers[1] = <<>> /\ throttleTimeout[1] = 0
    /\ connected[1] /\ loaded[1] /\ Did("dispatchEvent lazy-img:loaded", 1)

\* C36: a view-mode instance stays subscribed until it has loaded.  In every
\* reachable state, an instance that was attached in view mode (in SpecNoSrc
\* the even instances, whose query never changes), is still attached and is
\* not loaded has its callback registered in the intersection pool entry of
\* its attach-time key, also after an intersecting dispatch that arrived
\* while src was absent.
ViewStaysSubscribed ==
    \A i \in Inst :
        (i % 2 = 0 /\ connected[i] /\ ~loaded[i]) =>
            \E cb \in Range(ViewCallbacks(getIntersectionObserverKey(ZeroPx, Zero))) :
                cb.inst = i

(***************************************************************************)
(* SpecStale: instance 1 is created from <lazy-img min-inline-size="400">, *)
(* without src; the parents are 300 wide.  It is attached to and detached  *)
(* from the parents, whose sizes change; the observers report, timers      *)
(* expire, and scripts set and remove its src.                             *)
(***************************************************************************)
InitStale ==
    InitWith(300, 300,
             [i \in Inst |-> IF i = 1 THEN <<Attribute("min-inline-size", Size400)>> ELSE <<>>])

NextStale ==
    \/ \E p \in Parents : Attach(1, p)
    \/ Detach(1)
    \/ \E t \in Parents, size \in {300, 450} : ResizeTarget(t, size)
    \/ \E t \in Parents : SizeDispatch(t)
    \/ Expire(1)
    \/ \E value \in {Null, SrcA} : SetAttribute(1, "src", value)

SpecStale == InitStale /\ [][NextStale]_vars

\* Instance i is subscribed to the size pool and governed by a valid
\* threshold above 0, with no named breakpoints.
SizeGoverned(i) ==
    /\ observedTarget[i] # NoTarget
    /\ i \in Range(SizeCallbacks(observedTarget[i]))
    /\ ~Truthy(attrs[i]["named-breakpoints"])
    /\ Truthy(attrs[i]["min-inline-size"])
    /\ ~ParseInt(attrs[i]["min-inline-size"]).nan
    /\ ParseInt(attrs[i]["min-inline-size"]).val > 0

\* C37: no load on a stale size.  Whenever an instance subscribed to the size
\* pool with a valid threshold t > 0 and no named breakpoints becomes loaded,
\* the size used for the decision is at least t and was reported, after the
\* instance's most recent attach, by the target it is subscribed to: the
\* attach itself, before which that target has reported nothing to the
\* instance, never loads it.
NoLoadOnStaleSize ==
    [][\A i \in Inst :
           (~loaded[i] /\ loaded'[i] /\ SizeGoverned(i)') =>
               /\ currentSize'[i] # Undefined
               /\ currentSize'[i] >= ParseInt(attrs'[i]["min-inline-size"]).val
               /\ ~(~connected[i] /\ connected'[i])]_vars

\* The number of pool entries that hold a callback of instance i, and the
\* number of callbacks of i over all entries.
SizeEntries(i) == {t \in Targets : i \in Range(SizeCallbacks(t))}
ViewEntries(i) ==
    {key \in DOMAIN sharedIntersectionObservers :
         \E cb \in Range(ViewCallbacks(key)) : cb.inst = i}
EntriesOf(i) ==
    Cardinality(SizeEntries(i))
    + (IF i \in Range(windowResizeCallbacks) THEN 1 ELSE 0)
    + Cardinality(ViewEntries(i))

\* C38: single pool membership.  In every reachable state in which attach
\* and detach alternate per instance, each instance has a callback registered
\* in at most one of the three pools and in at most one entry of that pool,
\* and an instance that is not attached has none.
SinglePoolMembership ==
    \A i \in Inst :
        /\ EntriesOf(i) <= 1
        /\ ~connected[i] => EntriesOf(i) = 0

\* Both instances are attached and in view mode by their query, yet each
\* still holds the one subscription of its attach: instance 1 in the window
\* pool, instance 2 in the intersection pool.
MembershipKeptAcrossQueryChange ==
    /\ connected[1] /\ connected[2]
    /\ queryType[1] = ViewStr /\ queryType[2] = ViewStr
    /\ 1 \in Range(windowResizeCallbacks)
    /\ ViewEntries(2) # {}
    /\ EntriesOf(1) = 1 /\ EntriesOf(2) = 1

\* The step is an attach, a detach or an attribute mutation of instance i.
OwnStep(i) == connected'[i] # connected[i] \/ Did("attributeChangedCallback", i)'

\* What the frame claim lists of instance j: the loaded and qualifies flags,
\* the cached configuration, the pending timer and the pool subscription.
Private(j) ==
    <<loaded[j], hasLoaded[j], hasQualifies[j],
      namedBreakpoints[j], minInlineSize[j], queryType[j], parsedBreakpoints[j],
      throttleTimeout[j], timers[j],
      Handles(j), SizeEntries(j), j \in Range(windowResizeCallbacks), ViewEntries(j)>>

\* C39: instances do not interfere.  An attach, detach or attribute mutation
\* of one instance never changes another instance's loaded flag, qualifies
\* flag, cached configuration, pending throttle timer or pool subscription,
\* even when both share the same size-pool target, the window-resize pool or
\* the same intersection-pool key.
InstancesDoNotInterfere ==
    [][\A i \in Inst : OwnStep(i) => \A j \in Inst \ {i} : Private(j)' = Private(j)]_vars

\* Instances 1 and 2 shared the size-pool entry of parent 1 and both had a
\* timer pending; instance 1 has just been detached, which cancelled its
\* timer and left the entry and the timer of instance 2.
DetachedFromSharedEntry ==
    /\ ~connected[1] /\ Did("clearTimeout", 1)
    /\ connected[2] /\ 2 \in Range(SizeCallbacks(1)) /\ timers[2] # <<>>

\* C40: a late src is picked up.  If an attached, not yet loaded instance in
\* container or media mode satisfies its condition and its src changes from
\* absent to a non-empty value, the instance becomes loaded by that mutation
\* (loaded flag and attribute set, loaded event emitted), with no further
\* size or viewport change.
LateSrcLoads ==
    [][\A i \in Inst :
           (/\ connected[i] /\ ~loaded[i] /\ queryType[i] # ViewStr /\ Satisfied(i)
            /\ attrs[i]["src"] = Null /\ Truthy(attrs'[i]["src"])
            /\ Did("attributeChangedCallback", i)') =>
               /\ loaded'[i] /\ hasLoaded'[i]
               /\ Did("dispatchEvent lazy-img:loaded", i)']_vars

====
